---- MODULE Spec2Model ----
(***************************************************************************)
(* Verification model of the llm-wrapper gateway (src/llm-wrapper.py and   *)
(* src/monitor/manage_monitor_db.py).                                      *)
(*                                                                         *)
(* The gateway is one uvicorn process with one asyncio event loop.  Every  *)
(* endpoint is an `async def` coroutine: it runs on the loop without       *)
(* interruption until it reaches an await (or, for a streaming generator, a*)
(* yield).  The variable `loop` names the task that currently runs on the  *)
(* event loop; a step of another task is possible only when it is free.    *)
(***************************************************************************)
EXTENDS Integers, Sequences, FiniteSets, TLC

VARIABLES
    tokens,     \* table `tokens` (tokens/auth_tokens.db): token -> row
    now,        \* the server clock, datetime.now(), in ticks
    task,       \* one record per in-flight chat-completions request
    loop,       \* the task running on the event loop, 0 when it is free
    hist,       \* log of the outcomes of is_token_valid, in return order
    meg,        \* table `monitor_event_groups`, in insertion (id) order
    hook,       \* one record per webhook delivery
    pull,       \* one record per monitor pull (stream_monitor_events)
    strm,       \* a streamed completion of a provider adapter
    call,       \* a non-streaming completion of a provider adapter
    reg,        \* one record per request to POST /v1/monitors/create
    route       \* the provider table and the lookups made in it

vars == <<tokens, now, task, loop, hist, meg, hook, pull, strm, call, reg, route>>

authVars == <<tokens, now, task, loop, hist>>
monVars  == <<meg, hook, pull, strm, call, reg, route>>

-----------------------------------------------------------------------------
(* Bounds of the model *)

MaxTasks == 3      \* chat-completions requests of a behaviour
MaxNow   == 2      \* last clock tick
DayLen   == 2      \* clock ticks per calendar day
MaxLimit == 2      \* largest rate_limit of a credential

Tasks == 1..MaxTasks

-----------------------------------------------------------------------------
(* Credential store: the `tokens` table of src/tokens/manage_tokens.py *)

StoredTokens == {"T1", "T2"}
TokenStrings == StoredTokens \cup {"TX", ""}

\* An expiry column is a string; BadExpiry stands for one that
\* "%Y-%m-%d %H:%M:%S" does not parse, a number for the instant it denotes.
BadExpiry == -1
ExpiryStrings == {BadExpiry} \cup (1..(MaxNow + 1))

\* add_token: a new row has request_count 0, lifetime_requests 0 and
\* last_request_date = the day of creation.
NewRow(username, expiry, rate_limit, today) ==
    [username |-> username, expiry |-> expiry, request_count |-> 0,
     rate_limit |-> rate_limit, last_request_date |-> today,
     lifetime_requests |-> 0]

\* datetime.now().date().isoformat()
Today(t) == t \div DayLen

-----------------------------------------------------------------------------
(* is_token_valid, src/llm-wrapper.py:197-232 *)

NoRow == [username |-> "none"]

\* c.execute("SELECT ... FROM tokens WHERE token=?"); c.fetchone()
SelectRow(tbl, tk) == IF tk \in DOMAIN tbl THEN tbl[tk] ELSE NoRow

\* datetime.strptime(expiry, ...): ValueError on a string it cannot parse
ParseFails(expiry) == expiry = BadExpiry

ExpiredOnlyAtInstant(expiry_dt, t) == expiry_dt = t
\* if expiry_dt <= datetime.now()
Expired(expiry_dt, t) == expiry_dt <= t

ResetCountKeepsStale(row, today) == row.request_count
ResetCountAlways(row, today) == 0
\* if last_request_date != today: request_count = 0
ResetCount(row, today) ==
    IF row.last_request_date # today THEN 0 ELSE row.request_count

OverLimitOffByOne(request_count, rate_limit) == request_count > rate_limit
\* if request_count >= rate_limit
OverLimit(request_count, rate_limit) == request_count >= rate_limit

UpdatedRowNoLifetime(row, request_count, today) ==
    [row EXCEPT !.request_count = request_count + 1,
                !.last_request_date = today]
\* UPDATE tokens SET request_count=?, last_request_date=?, lifetime_requests=?
\* with (request_count + 1, today, lifetime_requests + 1): the values are
\* computed from the row the SELECT returned.
UpdatedRow(row, request_count, today) ==
    [row EXCEPT !.request_count = request_count + 1,
                !.last_request_date = today,
                !.lifetime_requests = row.lifetime_requests + 1]

-----------------------------------------------------------------------------
(* Requests to POST /v1/chat/completions *)

NoHeader == [scheme |-> "none", cred |-> ""]
Headers ==
    { NoHeader,
      [scheme |-> "Bearer", cred |-> "T1"],
      [scheme |-> "bearer", cred |-> "T1"],
      [scheme |-> "Bearer", cred |-> "TX"],
      [scheme |-> "Bearer", cred |-> ""],
      [scheme |-> "Basic",  cred |-> "T1"] }

\* authorization.lower().startswith("bearer ") ; authorization[7:].strip()
ExtractToken(h) ==
    IF h.scheme \in {"Bearer", "bearer"} THEN h.cred ELSE ""

\* The configured providers, in registration order (load_providers).
Providers ==
    << [name |-> "P1", supported_models |-> {"m", "k"}, api_key |-> "sk"],
       [name |-> "P2", supported_models |-> {"k"}, api_key |-> "sk"] >>

NoProvider == "none"

\* What os.getenv(api_key_env) gives: a key, or "" for a variable that is
\* unset (None) or set to the empty string; both are falsy.
Secrets == {"sk", ""}

\* A constructor that keeps whatever os.getenv returned.
LLMProviderUnchecked(entry) ==
    [ok |-> TRUE,
     provider |-> [name |-> entry.name,
                   supported_models |-> entry.supported_models,
                   api_key |-> entry.secret]]

\* LLMProvider.__init__ for an entry of the configuration: ValueError when
\* os.getenv(api_key_env) is falsy, else the provider with its api_key.
LLMProvider(entry) ==
    IF entry.secret = ""
    THEN [ok |-> FALSE, provider |-> NoProvider]
    ELSE [ok |-> TRUE,
          provider |-> [name |-> entry.name,
                        supported_models |-> entry.supported_models,
                        api_key |-> entry.secret]]

\* The server once startup_event has loaded the table from a configuration
\* whose every secret resolved.
Serving(table) ==
    [pc |-> "serving",
     config |-> [i \in 1..Len(table) |->
                   [name |-> table[i].name,
                    supported_models |-> table[i].supported_models,
                    secret |-> table[i].api_key]],
     providers |-> table, found |-> << >>]

\* The provider the loop would return if a later entry of the table won.
RECURSIVE LastSupporting(_, _, _)
LastSupporting(table, i, model) ==
    IF i > Len(table) THEN NoProvider
    ELSE LET later == LastSupporting(table, i + 1, model)
         IN  IF later # NoProvider THEN later
             ELSE IF model \in table[i].supported_models THEN table[i].name
             ELSE NoProvider

\* The loop of get_provider over providers.values(), from entry i on.
RECURSIVE FirstSupporting(_, _, _)
FirstSupporting(table, i, model) ==
    IF i > Len(table) THEN NoProvider
    ELSE IF model \in table[i].supported_models THEN table[i].name
    ELSE FirstSupporting(table, i + 1, model)

\* A lookup that falls back to the first provider of the table.
get_provider_or_default(model) ==
    IF FirstSupporting(route.providers, 1, model) = NoProvider
    THEN route.providers[1].name
    ELSE FirstSupporting(route.providers, 1, model)

\* get_provider: the first provider whose supported_models holds the model
get_provider(model) == FirstSupporting(route.providers, 1, model)

\* payload: the model, whether a message holds an update keyword
\* (contains_update_keywords), and the stream field
Payloads ==
    { [model |-> "m",     keywords |-> FALSE, stream |-> FALSE],
      [model |-> "m",     keywords |-> TRUE,  stream |-> TRUE],
      [model |-> "zz",    keywords |-> FALSE, stream |-> FALSE],
      [model |-> "Speed", keywords |-> TRUE,  stream |-> FALSE] }

NoPayload == [model |-> "", keywords |-> FALSE, stream |-> FALSE]

\* model.lower()
Lower(s) == IF s \in {"Speed", "SPEED"} THEN "speed" ELSE s

AuthStatusTruthy(is_valid) == IF is_valid = "False" THEN 401 ELSE 0
\* if is_valid == "rate_limited": raise HTTPException(429)
\* if not is_valid: raise HTTPException(401)          (0: the handler goes on)
AuthStatus(is_valid) ==
    IF is_valid = "rate_limited" THEN 429
    ELSE IF is_valid # "True" THEN 401
    ELSE 0

IdleTask ==
    [pc |-> "idle", payload |-> NoPayload,
     token |-> "", row |-> NoRow, is_valid |-> "none", username |-> "none",
     status |-> 0, writes |-> 0, upstream |-> 0, pull |-> FALSE]

YieldsEverywhere(p) == TRUE
\* chat_endpoint is `async def` and awaits nothing between its entry and its
\* return, and is_token_valid is a plain function: the task gives up the
\* event loop only before the handler starts and when it has returned.
Yields(p) == p \in {"idle", "ready", "done"}

Runs(t) == loop \in {0, t}
Hold(t, p) == IF Yields(p) THEN 0 ELSE t

InFlight(t) == task[t].pc \notin {"idle", "done"}

\* The log keeps the validations of stored tokens: the token, the calendar
\* day, the outcome, the request and whether another request was in flight
\* at that time.
Log(tk, outcome, t) ==
    IF tk \in DOMAIN tokens
    THEN Append(hist, [token |-> tk, day |-> Today(now), outcome |-> outcome,
                       task |-> t,
                       conc |-> \E u \in Tasks \ {t} : InFlight(u)])
    ELSE hist

-----------------------------------------------------------------------------
(* Initial state *)

\* No streamed completion has been started.
IdleStream ==
    [pc |-> "idle", adapter |-> "", up |-> << >>, pos |-> 0, out |-> << >>,
     conn |-> "none"]

\* No completion has been asked of an adapter.
IdleCall ==
    [pc |-> "idle", adapter |-> "", messages |-> << >>,
     request |-> [system |-> << >>, messages |-> << >>],
     response |-> [status |-> 0, json |-> FALSE, content |-> << >>],
     http |-> 0, outcome |-> "", content |-> << >>]

\* A request to create a monitor that has not arrived.
IdleReg ==
    [pc |-> "idle", username |-> "", monitor_id |-> "", registered |-> FALSE,
     status |-> 0]

InitAuth ==
    /\ \E e \in ExpiryStrings, l \in 0..MaxLimit :
          tokens = [tk \in StoredTokens |->
                      IF tk = "T1" THEN NewRow("alice", e, l, 0)
                                   ELSE NewRow("bob", MaxNow + 1, 1, 0)]
    /\ now = 0
    /\ task = [t \in Tasks |-> IdleTask]
    /\ loop = 0
    /\ hist = << >>

Init ==
    /\ InitAuth
    /\ meg = << >>
    /\ hook = << >>
    /\ pull = << >>
    /\ strm = IdleStream
    /\ call = IdleCall
    /\ reg = << >>
    /\ route = Serving(Providers)


-----------------------------------------------------------------------------
(* Actions of the chat-completions endpoint *)

\* The server clock advances.
Tick ==
    /\ now < MaxNow
    /\ now' = now + 1
    /\ UNCHANGED <<tokens, task, loop, hist, strm, call, reg, route>>
    /\ UNCHANGED monVars

\* A request arrives; the framework parses it and schedules chat_endpoint.
\* Each task serves one request.
\* Nothing reads the header or the body before the handler does, so the
\* model draws each where the handler first reads it.
Receive(t) ==
    /\ task[t].pc = "idle"
    /\ \A u \in Tasks : u < t => task[u].pc # "idle"
    /\ task' = [task EXCEPT ![t] = [IdleTask EXCEPT !.pc = "ready"]]
    /\ UNCHANGED <<tokens, now, loop, hist>>
    /\ UNCHANGED monVars

\* llm-wrapper.py:258-261
Extract(t, authorization) ==
    /\ task[t].pc = "ready"
    /\ Runs(t)
    /\ task' = [task EXCEPT ![t].pc = "tv_select",
                            ![t].token = ExtractToken(authorization)]
    /\ loop' = Hold(t, "tv_select")
    /\ UNCHANGED <<tokens, now, hist>>
    /\ UNCHANGED monVars

\* llm-wrapper.py:199-208: empty token, SELECT, unknown token
TvSelect(t) ==
    /\ task[t].pc = "tv_select"
    /\ Runs(t)
    /\ LET tk  == task[t].token
           row == SelectRow(tokens, tk)
       IN IF tk = "" \/ row = NoRow
          THEN /\ task' = [task EXCEPT ![t].pc = "auth", ![t].is_valid = "False",
                                       ![t].row = NoRow]
               /\ hist' = Log(tk, "Rejected", t)
               /\ loop' = Hold(t, "auth")
          ELSE /\ task' = [task EXCEPT ![t].pc = "tv_expiry", ![t].row = row]
               /\ hist' = hist
               /\ loop' = Hold(t, "tv_expiry")
    /\ UNCHANGED <<tokens, now>>
    /\ UNCHANGED monVars

\* llm-wrapper.py:209-216: unparseable or past expiry
TvExpiry(t) ==
    /\ task[t].pc = "tv_expiry"
    /\ Runs(t)
    /\ LET row == task[t].row
       IN IF ParseFails(row.expiry) \/ Expired(row.expiry, now)
          THEN /\ task' = [task EXCEPT ![t].pc = "auth", ![t].is_valid = "False",
                                       ![t].row = NoRow]
               /\ hist' = Log(task[t].token, "Rejected", t)
               /\ loop' = Hold(t, "auth")
          ELSE /\ task' = [task EXCEPT ![t].pc = "tv_rate"]
               /\ hist' = hist
               /\ loop' = Hold(t, "tv_rate")
    /\ UNCHANGED <<tokens, now>>
    /\ UNCHANGED monVars

\* llm-wrapper.py:218-232: day reset, rate limit, UPDATE and commit
TvRate(t) ==
    /\ task[t].pc = "tv_rate"
    /\ Runs(t)
    /\ LET tk            == task[t].token
           row           == task[t].row
           today         == Today(now)
           request_count == ResetCount(row, today)
       IN IF OverLimit(request_count, row.rate_limit)
          THEN /\ task' = [task EXCEPT ![t].pc = "auth",
                                       ![t].is_valid = "rate_limited",
                                       ![t].username = row.username]
               /\ hist' = Log(tk, "RateLimited", t)
               /\ tokens' = tokens
          ELSE /\ task' = [task EXCEPT ![t].pc = "auth",
                                       ![t].is_valid = "True",
                                       ![t].row = NoRow,
                                       ![t].username = row.username,
                                       ![t].writes = task[t].writes + 1]
               /\ hist' = Log(tk, "Accepted", t)
               /\ tokens' = [tokens EXCEPT ![tk] =
                                UpdatedRow(row, request_count, today)]
    /\ loop' = Hold(t, "auth")
    /\ UNCHANGED <<now>>
    /\ UNCHANGED monVars

\* llm-wrapper.py:263-266
AuthBranch(t) ==
    /\ task[t].pc = "auth"
    /\ Runs(t)
    /\ LET status == AuthStatus(task[t].is_valid)
       IN IF status # 0
          THEN /\ task' = [task EXCEPT ![t].pc = "done", ![t].status = status,
                                       ![t].token = "", ![t].username = "none"]
               /\ loop' = Hold(t, "done")
          ELSE /\ task' = [task EXCEPT ![t].pc = "classify", ![t].token = ""]
               /\ loop' = Hold(t, "classify")
    /\ UNCHANGED <<tokens, now, hist>>
    /\ UNCHANGED monVars

\* llm-wrapper.py:267-275: a monitor pull is answered with the event stream
Classify(t, payload) ==
    /\ task[t].pc = "classify"
    /\ Runs(t)
    /\ IF Lower(payload.model) = "speed" /\ payload.keywords
       THEN /\ task' = [task EXCEPT ![t].pc = "done", ![t].status = 200,
                                    ![t].pull = TRUE, ![t].username = "none"]
            /\ loop' = Hold(t, "done")
       ELSE /\ task' = [task EXCEPT ![t].pc = "resolve",
                                    ![t].payload = payload]
            /\ loop' = Hold(t, "resolve")
    /\ UNCHANGED <<tokens, now, hist>>
    /\ UNCHANGED monVars

\* llm-wrapper.py:277-287: get_provider, then the provider's chat_completion
Resolve(t) ==
    /\ task[t].pc = "resolve"
    /\ Runs(t)
    /\ IF get_provider(task[t].payload.model) = NoProvider
       THEN task' = [task EXCEPT ![t].pc = "done", ![t].status = 400,
                                 ![t].payload = NoPayload,
                                 ![t].username = "none"]
       ELSE task' = [task EXCEPT ![t].pc = "done", ![t].status = 200,
                                 ![t].payload = NoPayload,
                                 ![t].username = "none",
                                 ![t].upstream = task[t].upstream + 1]
    /\ loop' = Hold(t, "done")
    /\ UNCHANGED <<tokens, now, hist>>
    /\ UNCHANGED monVars

Next ==
    \/ Tick
    \/ \E t \in Tasks : Receive(t)
    \/ \E t \in Tasks, h \in Headers : Extract(t, h)
    \/ \E t \in Tasks : TvSelect(t)
    \/ \E t \in Tasks : TvExpiry(t)
    \/ \E t \in Tasks : TvRate(t)
    \/ \E t \in Tasks : AuthBranch(t)
    \/ \E t \in Tasks, p \in Payloads : Classify(t, p)
    \/ \E t \in Tasks : Resolve(t)

Spec == Init /\ [][Next]_vars

-----------------------------------------------------------------------------
(* Monitor event store: src/monitor/manage_monitor_db.py *)

MaxHooks == 2      \* webhook deliveries of a behaviour
MaxPulls == 2      \* monitor pulls of a behaviour
MaxRegs  == 2      \* requests to create a monitor of a behaviour

Hooks == 1..MaxHooks
Pulls == 1..MaxPulls
Regs  == 1..MaxRegs

Usernames  == {"alice", "bob", "carol"}     \* carol has no token
MonitorIds == {"M1", "M2"}
GroupIds   == {"G1", "G2"}
EventCounts == {0, 1, 2}                    \* len(events_payload["events"])

\* f"__registration__{monitor_id}"
RegistrationId(monitor_id) ==
    IF monitor_id = "M1" THEN "__registration__M1"
    ELSE IF monitor_id = "M2" THEN "__registration__M2"
    ELSE "__registration__"

\* SELECT 1 FROM tokens WHERE username = ? LIMIT 1
username_exists(username) ==
    \E tk \in DOMAIN tokens : tokens[tk].username = username

\* A lookup that falls back to a default owner for an unknown monitor.
get_username_or_default(monitor_id) ==
    LET ids == {i \in 1..Len(meg) : meg[i].monitor_id = monitor_id}
    IN IF ids = {} THEN "alice"
       ELSE meg[CHOOSE i \in ids : \A j \in ids : i <= j].username

\* A lookup that takes the username of the newest row of the table for a
\* monitor that has rows.
get_username_of_last_row(monitor_id) ==
    LET ids == {i \in 1..Len(meg) : meg[i].monitor_id = monitor_id}
    IN IF ids = {} THEN "" ELSE meg[Len(meg)].username

\* SELECT DISTINCT username FROM monitor_event_groups WHERE monitor_id = ?
\* LIMIT 1: the username of a row of the monitor, "" (None) without one.
get_username_by_monitor_id(monitor_id) ==
    LET ids == {i \in 1..Len(meg) : meg[i].monitor_id = monitor_id}
    IN IF ids = {} THEN ""
       ELSE meg[CHOOSE i \in ids : \A j \in ids : i <= j].username

HasGroup(tbl, event_group_id) ==
    \E i \in 1..Len(tbl) : tbl[i].event_group_id = event_group_id

\* INSERT OR REPLACE: the conflicting row is deleted and the new one inserted.
InsertOrReplace(tbl, row) ==
    Append(SelectSeq(tbl, LAMBDA r : r.event_group_id # row.event_group_id),
           row)
\* INSERT OR IGNORE INTO monitor_event_groups: event_group_id is UNIQUE, so a
\* row whose event_group_id is already stored is not inserted.
InsertOrIgnore(tbl, row) ==
    IF HasGroup(tbl, row.event_group_id) THEN tbl ELSE Append(tbl, row)

\* save_event_group: the table after the call and the value returned
\* (inserted = c.rowcount > 0).
save_event_group(username, monitor_id, event_group_id, received_at) ==
    IF username = "" \/ ~username_exists(username)
    THEN [meg |-> meg, inserted |-> FALSE]
    ELSE LET row == [username |-> username, monitor_id |-> monitor_id,
                     event_group_id |-> event_group_id,
                     received_at |-> received_at, processed |-> FALSE]
             tbl == InsertOrIgnore(meg, row)
         IN [meg |-> tbl, inserted |-> Len(tbl) > Len(meg)]

\* A registration without the SELECT for an existing row of the monitor: it
\* returns whether the INSERT OR IGNORE added a row.
register_monitor_reinsert(username, monitor_id, received_at) ==
    IF username = "" \/ monitor_id = "" THEN [meg |-> meg, ok |-> FALSE]
    ELSE IF ~username_exists(username) THEN [meg |-> meg, ok |-> FALSE]
    ELSE LET row == [username |-> username, monitor_id |-> monitor_id,
                     event_group_id |-> RegistrationId(monitor_id),
                     received_at |-> received_at, processed |-> TRUE]
             tbl == InsertOrIgnore(meg, row)
         IN [meg |-> tbl, ok |-> Len(tbl) > Len(meg)]

\* A registration that inserts its row whatever the table holds.
register_monitor_append(username, monitor_id, received_at) ==
    IF username = "" \/ monitor_id = "" THEN [meg |-> meg, ok |-> FALSE]
    ELSE IF ~username_exists(username) THEN [meg |-> meg, ok |-> FALSE]
    ELSE [meg |-> Append(meg, [username |-> username,
                               monitor_id |-> monitor_id,
                               event_group_id |-> RegistrationId(monitor_id),
                               received_at |-> received_at,
                               processed |-> TRUE]),
          ok |-> TRUE]

\* A registration whose row is inserted with processed = 0.
register_monitor_pending(username, monitor_id, received_at) ==
    IF username = "" \/ monitor_id = "" THEN [meg |-> meg, ok |-> FALSE]
    ELSE IF ~username_exists(username) THEN [meg |-> meg, ok |-> FALSE]
    ELSE IF \E i \in 1..Len(meg) : meg[i].monitor_id = monitor_id
    THEN [meg |-> meg, ok |-> TRUE]
    ELSE LET row == [username |-> username, monitor_id |-> monitor_id,
                     event_group_id |-> RegistrationId(monitor_id),
                     received_at |-> received_at, processed |-> FALSE]
             tbl == InsertOrIgnore(meg, row)
         IN [meg |-> tbl, ok |-> Len(tbl) > Len(meg)]

\* register_monitor: the table after the call and the value returned.
register_monitor(username, monitor_id, received_at) ==
    IF username = "" \/ monitor_id = "" THEN [meg |-> meg, ok |-> FALSE]
    ELSE IF ~username_exists(username) THEN [meg |-> meg, ok |-> FALSE]
    ELSE IF \E i \in 1..Len(meg) : meg[i].monitor_id = monitor_id
    THEN [meg |-> meg, ok |-> TRUE]
    ELSE LET row == [username |-> username, monitor_id |-> monitor_id,
                     event_group_id |-> RegistrationId(monitor_id),
                     received_at |-> received_at, processed |-> TRUE]
             tbl == InsertOrIgnore(meg, row)
         IN [meg |-> tbl, ok |-> Len(tbl) > Len(meg)]

\* Insertion sort of rows by received_at (ORDER BY received_at ASC).
RECURSIVE InsertByReceived(_, _)
InsertByReceived(sorted, r) ==
    IF sorted = << >> THEN <<r>>
    ELSE IF r.received_at < Head(sorted).received_at THEN <<r>> \o sorted
    ELSE <<Head(sorted)>> \o InsertByReceived(Tail(sorted), r)

RECURSIVE SortByReceived(_)
SortByReceived(rows) ==
    IF rows = << >> THEN << >>
    ELSE InsertByReceived(SortByReceived(Tail(rows)), Head(rows))

\* The pending rows of every user, oldest first.
fetch_pending_of_all_users(username) ==
    SortByReceived(SelectSeq(meg, LAMBDA r : ~r.processed))

\* The pending rows of the user, newest first.
fetch_newest_first(username) ==
    LET rows == SortByReceived(SelectSeq(meg,
                   LAMBDA r : r.username = username /\ ~r.processed))
    IN [i \in 1..Len(rows) |-> rows[Len(rows) + 1 - i]]
\* fetch_unprocessed_event_groups: SELECT ... WHERE username = ? AND
\* processed = 0 ORDER BY received_at ASC
fetch_unprocessed_event_groups(username) ==
    SortByReceived(SelectSeq(meg,
        LAMBDA r : r.username = username /\ ~r.processed))

\* mark_event_group_processed: UPDATE ... SET processed = 1 WHERE
\* event_group_id = ?
mark_event_group_processed(tbl, event_group_id) ==
    [i \in 1..Len(tbl) |->
        IF tbl[i].event_group_id = event_group_id
        THEN [tbl[i] EXCEPT !.processed = TRUE] ELSE tbl[i]]

-----------------------------------------------------------------------------
(* Webhook receiver: parallel_monitor_webhook, src/llm-wrapper.py:317-377 *)

\* A request body: text that is not JSON, a JSON value that is not an object,
\* or an object; "" stands for a monitor_id / event_group_id that is missing.
Bodies ==
    { [kind |-> "garbage", monitor_id |-> "", event_group_id |-> ""],
      [kind |-> "array",   monitor_id |-> "", event_group_id |-> ""] }
    \cup [kind : {"object"}, monitor_id : MonitorIds,
          event_group_id : GroupIds]
    \cup { [kind |-> "object", monitor_id |-> "",   event_group_id |-> ""],
           [kind |-> "object", monitor_id |-> "M1", event_group_id |-> ""],
           [kind |-> "object", monitor_id |-> "",   event_group_id |-> "G1"] }

\* Where sqlite3 raises in a delivery: nowhere, in the username lookup, or
\* in save_event_group before its commit.
StorageFaults == {"none", "lookup", "save"}

NoBody == [kind |-> "none", monitor_id |-> "", event_group_id |-> ""]
IdleHook ==
    [pc |-> "idle", body |-> NoBody, status |-> 0, reply |-> "",
     conc |-> FALSE]

\* The exception the handler's try block raises, "" when it raises none:
\* request.json() on a body that is not JSON, payload.get on a JSON value
\* that is not an object, sqlite3 errors of the store.
Raised(body, fault) ==
    IF body.kind = "garbage" THEN "JSONDecodeError"
    ELSE IF body.kind = "array" THEN "AttributeError"
    ELSE IF body.event_group_id = "" \/ body.monitor_id = "" THEN ""
    ELSE IF fault = "lookup" THEN "sqlite3.Error"
    ELSE IF get_username_by_monitor_id(body.monitor_id) = "" THEN ""
    ELSE IF fault = "save" THEN "sqlite3.Error"
    ELSE ""

CatchesOnlyStorage(exc) == exc = "sqlite3.Error"
\* except Exception as e
Catches(exc) == TRUE

\* JSONResponse(status_code=200, ...) of every return of the handler
AckStatus == 200
\* the framework's answer to an exception that leaves the handler
UnhandledStatus == 500

\* The response of the handler and the table it leaves.
HandleWebhook(body, fault, received_at) ==
    LET exc == Raised(body, fault)
    IN IF exc # ""
       THEN [meg |-> meg, reply |-> exc,
             status |-> IF Catches(exc) THEN AckStatus ELSE UnhandledStatus]
       ELSE IF body.event_group_id = "" \/ body.monitor_id = ""
       THEN [meg |-> meg, reply |-> "missing", status |-> AckStatus]
       ELSE LET username == get_username_by_monitor_id(body.monitor_id)
            IN IF username = ""
               THEN [meg |-> meg, reply |-> "unregistered",
                     status |-> AckStatus]
               ELSE LET saved == save_event_group(username, body.monitor_id,
                                     body.event_group_id, received_at)
                    IN [meg |-> saved.meg,
                        reply |-> IF saved.inserted THEN "stored"
                                  ELSE "exists",
                        status |-> AckStatus]

\* A delivery arrives; the handler starts and awaits request.json().
WebhookArrives(h, body) ==
    /\ hook[h].pc = "idle"
    /\ \A k \in Hooks : k < h => hook[k].pc # "idle"
    /\ hook' = [hook EXCEPT ![h] =
                  [IdleHook EXCEPT !.pc = "await_json", !.body = body,
                      !.conc = \E k \in Hooks : hook[k].pc = "await_json"]]
    /\ UNCHANGED <<meg, pull, now>>
    /\ UNCHANGED <<tokens, task, loop, hist, strm, call, reg, route>>

\* llm-wrapper.py:328-377: from the return of request.json() to the
\* response; nothing in between awaits.
WebhookHandled(h, fault) ==
    /\ hook[h].pc = "await_json"
    /\ LET r == HandleWebhook(hook[h].body, fault, now)
       IN /\ meg' = r.meg
          /\ now' = IF r.meg # meg THEN now + 1 ELSE now
          /\ hook' = [hook EXCEPT ![h].pc = "done", ![h].status = r.status,
                                  ![h].reply = r.reply,
                                  ![h].body = IF r.reply \in {"stored", "exists"}
                                              THEN hook[h].body ELSE NoBody]
    /\ UNCHANGED pull
    /\ UNCHANGED <<tokens, task, loop, hist, strm, call, reg, route>>

\* A delivery of a webhook from its arrival to its response, in one step:
\* the handler's only await precedes its first statement.  Deliveries that
\* store nothing leave every variable as it is.
WebhookDelivered(body, fault) ==
    /\ LET r == HandleWebhook(body, fault, now)
       IN /\ r.meg # meg
          /\ meg' = r.meg
          /\ now' = now + 1
    /\ UNCHANGED <<hook, pull>>
    /\ UNCHANGED <<tokens, task, loop, hist, strm, call, reg, route>>

\* register_monitor(username, monitor_id), as called by
\* create_monitor_endpoint (llm-wrapper.py:435) and by create_monitor.py.
Register(username, monitor_id) ==
    /\ LET r == register_monitor(username, monitor_id, now)
       IN /\ meg' = r.meg
          /\ now' = IF r.meg # meg THEN now + 1 ELSE now
    /\ UNCHANGED <<hook, pull>>
    /\ UNCHANGED <<tokens, task, loop, hist, strm, call, reg, route>>

\* The user has a token that has not expired: is_token_valid can return True
\* for a request of the user.
CurrentlyValid(username) ==
    \E tk \in DOMAIN tokens :
        /\ tokens[tk].username = username
        /\ ~Expired(tokens[tk].expiry, now)

\* create_monitor_endpoint (llm-wrapper.py:380-449) once is_token_valid
\* returned True for the request, when the monitor service creates the
\* monitor: register_monitor is called with the authenticated username when
\* the answer carries a monitor_id ("" stands for none), and the response is
\* 200 whatever it returns.  The handler awaits nothing.
CreateMonitor(c, username, monitor_id) ==
    /\ reg[c].pc = "idle"
    /\ \A k \in Regs : k < c => reg[k].pc # "idle"
    /\ CurrentlyValid(username)
    /\ LET r == IF monitor_id = "" THEN [meg |-> meg, ok |-> FALSE]
                ELSE register_monitor(username, monitor_id, now)
       IN /\ meg' = r.meg
          /\ now' = IF r.meg # meg THEN now + 1 ELSE now
          /\ reg' = [reg EXCEPT ![c] =
                        [pc |-> "done", username |-> username,
                         monitor_id |-> monitor_id, registered |-> r.ok,
                         status |-> 200]]
    /\ UNCHANGED <<hook, pull>>
    /\ UNCHANGED <<tokens, task, loop, hist, strm, call, route>>

\* create_monitor_endpoint when create_monitor raises (llm-wrapper.py:
\* 450-463): the answer is the error status of the monitor service, or 500,
\* and nothing is registered.
CreateMonitorFails(c, username, status) ==
    /\ reg[c].pc = "idle"
    /\ \A k \in Regs : k < c => reg[k].pc # "idle"
    /\ CurrentlyValid(username)
    /\ reg' = [reg EXCEPT ![c] =
                  [IdleReg EXCEPT !.pc = "done", !.username = username,
                                  !.status = status]]
    /\ UNCHANGED <<meg, hook, pull, now>>
    /\ UNCHANGED <<tokens, task, loop, hist, strm, call, route>>

-----------------------------------------------------------------------------
(* Monitor pull: stream_monitor_events, src/llm-wrapper.py:465-560 *)

IdlePull ==
    [pc |-> "idle", username |-> "", groups |-> << >>, gi |-> 0,
     n |-> 0, idx |-> 0, frames |-> << >>]

EventFrame(event_group_id, idx, n) ==
    [kind |-> "event", group |-> event_group_id, idx |-> idx,
     finish |-> idx = n - 1]
ErrorFrame(event_group_id) ==
    [kind |-> "error", group |-> event_group_id, idx |-> 0, finish |-> FALSE]
NoteFrame(kind) == [kind |-> kind, group |-> "", idx |-> 0, finish |-> FALSE]

\* llm-wrapper.py:469-508: the API key, the pending groups of the user, and
\* the first upstream request (await client.get).
PullStarts(p, username, has_key) ==
    /\ pull[p].pc = "idle"
    /\ \A k \in Pulls : k < p => pull[k].pc # "idle"
    /\ LET groups == fetch_unprocessed_event_groups(username)
       IN IF ~has_key
          THEN pull' = [pull EXCEPT ![p] = [IdlePull EXCEPT !.pc = "done",
                           !.username = username,
                           !.frames = <<NoteFrame("nokey"), NoteFrame("done")>>]]
          ELSE IF groups = << >>
          THEN pull' = [pull EXCEPT ![p] = [IdlePull EXCEPT !.pc = "done",
                           !.username = username,
                           !.frames = <<NoteFrame("info"), NoteFrame("done")>>]]
          ELSE pull' = [pull EXCEPT ![p] = [IdlePull EXCEPT !.pc = "get",
                           !.username = username, !.groups = groups,
                           !.gi = 1]]
    /\ UNCHANGED <<meg, hook, now>>
    /\ UNCHANGED <<tokens, task, loop, hist, strm, call, reg, route>>

\* The generator goes on to the next group, or ends with [DONE].
NextGroup(q) ==
    IF q.gi < Len(q.groups)
    THEN [q EXCEPT !.pc = "get", !.gi = q.gi + 1, !.n = 0, !.idx = 0]
    ELSE [q EXCEPT !.pc = "done", !.n = 0, !.idx = 0, !.gi = 0,
                   !.groups = << >>,
                   !.frames = Append(q.frames, NoteFrame("done"))]

\* llm-wrapper.py:513-542: the upstream answers with n events; the generator
\* yields the first event frame, or with no event marks the group processed.
PullFetched(p, n) ==
    /\ pull[p].pc = "get"
    /\ LET q == pull[p]
           g == q.groups[q.gi].event_group_id
       IN IF n = 0
          THEN /\ meg' = mark_event_group_processed(meg, g)
               /\ pull' = [pull EXCEPT ![p] = NextGroup(q)]
          ELSE /\ meg' = meg
               /\ pull' = [pull EXCEPT ![p] =
                     [q EXCEPT !.pc = "yield", !.n = n, !.idx = 0,
                               !.frames = Append(q.frames, EventFrame(g, 0, n))]]
    /\ UNCHANGED <<hook, now>>
    /\ UNCHANGED <<tokens, task, loop, hist, strm, call, reg, route>>

\* How the fetch of a group fails: an error status (raise_for_status), a
\* transport failure, a timeout, or a 2xx body that is not valid JSON.
FetchFailures == {"status", "transport", "timeout", "json"}

\* The exception the try block of llm-wrapper.py:512-515 raises.
FetchRaises(failure) ==
    IF failure = "status" THEN "HTTPStatusError"
    ELSE IF failure = "transport" THEN "ConnectError"
    ELSE IF failure = "timeout" THEN "ReadTimeout"
    ELSE "JSONDecodeError"

\* except httpx.HTTPError: HTTPStatusError, the transport errors and the
\* timeouts are subclasses; json.JSONDecodeError (a ValueError) is not.
IsHTTPError(exc) == exc \in {"HTTPStatusError", "ConnectError", "ReadTimeout"}

\* llm-wrapper.py:512-559: the fetch of the group fails.  An httpx.HTTPError
\* is caught: the generator yields an error frame and leaves the group
\* pending.  Any other exception leaves the generator: the stream is aborted
\* where it stands.
PullFetchFails(p, failure) ==
    /\ pull[p].pc = "get"
    /\ LET q == pull[p]
           g == q.groups[q.gi].event_group_id
       IN IF IsHTTPError(FetchRaises(failure))
          THEN pull' = [pull EXCEPT ![p] =
                     [q EXCEPT !.pc = "yield_error",
                               !.frames = Append(q.frames, ErrorFrame(g))]]
          ELSE pull' = [pull EXCEPT ![p] =
                     [q EXCEPT !.pc = "crashed", !.n = 0, !.idx = 0,
                               !.gi = 0, !.groups = << >>]]
    /\ UNCHANGED <<meg, hook, now>>
    /\ UNCHANGED <<tokens, task, loop, hist, strm, call, reg, route>>

\* A loop that is left after its first event.
LoopExhaustedEarly(idx, n) == TRUE
\* for idx, event in enumerate(events): the event at idx was the last one.
LoopExhausted(idx, n) == idx + 1 >= n

\* The consumer takes the frame and the generator resumes after its yield:
\* the next event frame, or mark_event_group_processed and the next group.
PullResumes(p) ==
    /\ pull[p].pc \in {"yield", "yield_error"}
    /\ LET q == pull[p]
           g == q.groups[q.gi].event_group_id
       IN IF q.pc = "yield_error"
          THEN /\ meg' = meg
               /\ pull' = [pull EXCEPT ![p] = NextGroup(q)]
          ELSE IF ~LoopExhausted(q.idx, q.n)
          THEN /\ meg' = meg
               /\ pull' = [pull EXCEPT ![p] =
                     [q EXCEPT !.idx = q.idx + 1,
                               !.frames = Append(q.frames,
                                              EventFrame(g, q.idx + 1, q.n))]]
          ELSE /\ meg' = mark_event_group_processed(meg, g)
               /\ pull' = [pull EXCEPT ![p] = NextGroup(q)]
    /\ UNCHANGED <<hook, now>>
    /\ UNCHANGED <<tokens, task, loop, hist, strm, call, reg, route>>

\* The caller disconnects while the generator is suspended: the generator is
\* closed where it stands and runs no further statement.
PullDisconnects(p) ==
    /\ pull[p].pc \in {"get", "yield", "yield_error"}
    /\ pull' = [pull EXCEPT ![p].pc = "closed", ![p].n = 0, ![p].idx = 0,
                            ![p].gi = 0, ![p].groups = << >>]
    /\ UNCHANGED <<meg, hook, now>>
    /\ UNCHANGED <<tokens, task, loop, hist, strm, call, reg, route>>

InitStores ==
    /\ tokens = [tk \in StoredTokens |->
                   IF tk = "T1" THEN NewRow("alice", MaxNow + 1, 1, 0)
                                ELSE NewRow("bob", MaxNow + 1, 1, 0)]
    /\ now = 0
    /\ task = [t \in Tasks |-> IdleTask]
    /\ loop = 0
    /\ hist = << >>
    /\ meg = << >>
    /\ hook = [h \in Hooks |-> IdleHook]
    /\ pull = [p \in Pulls |-> IdlePull]
    /\ strm = IdleStream
    /\ call = IdleCall
    /\ reg = [c \in Regs |-> IdleReg]

InitMon ==
    /\ InitStores
    /\ route = Serving(Providers)

\* The calls of register_monitor: users with a token and a monitor id, a
\* user without a token, an empty username, an empty monitor id.
Registrations ==
    ({"alice", "bob"} \X MonitorIds)
    \cup {<<"carol", "M1">>, <<"", "M2">>, <<"alice", "">>}

WellFormedBodies ==
    {b \in Bodies : b.kind = "object" /\ b.monitor_id # ""
                       /\ b.event_group_id # ""}

\* Ingestion: every body and storage fault of the webhook, every
\* registration, and one pull at a time that marks groups processed.
NextIngest ==
    \/ \E h \in Hooks, body \in Bodies : WebhookArrives(h, body)
    \/ \E h \in Hooks, fault \in StorageFaults : WebhookHandled(h, fault)
    \/ \E r \in Registrations : Register(r[1], r[2])
    \/ \E u \in {"alice"} : PullStarts(1, u, TRUE)
    \/ PullFetched(1, 1)
    \/ PullResumes(1)

SpecIngest == InitMon /\ [][NextIngest]_vars

\* Deliveries for one monitor before and after its registration, and the
\* pulls of the user it is registered to.
NextDrop ==
    \/ \E h \in Hooks, body \in {b \in WellFormedBodies : b.monitor_id = "M1"} :
          WebhookArrives(h, body)
    \/ \E h \in Hooks : WebhookHandled(h, "none")
    \/ \E u \in {"alice", "bob"} : Register(u, "M1")
    \/ \E p \in Pulls : PullStarts(p, "alice", TRUE)
    \/ \E p \in Pulls : PullFetched(p, 1)
    \/ \E p \in Pulls : PullResumes(p)

SpecDrop == InitMon /\ [][NextDrop]_vars

\* Pulls: overlapping pulls of one user with every upstream answer and
\* disconnect, fed by the webhooks of the user's registered monitor.
NextPull ==
    \/ \E body \in {b \in WellFormedBodies : b.monitor_id = "M1"} :
          WebhookDelivered(body, "none")
    \/ Register("alice", "M1")
    \/ \E p \in Pulls, k \in BOOLEAN : PullStarts(p, "alice", k)
    \/ \E p \in Pulls, n \in EventCounts : PullFetched(p, n)
    \/ \E p \in Pulls, failure \in FetchFailures : PullFetchFails(p, failure)
    \/ \E p \in Pulls : PullResumes(p)
    \/ \E p \in Pulls : PullDisconnects(p)

SpecPull == InitMon /\ [][NextPull]_vars

\* The stores when bob's only token has expired.
InitReg ==
    /\ tokens = [tk \in StoredTokens |->
                   IF tk = "T1" THEN NewRow("alice", MaxNow + 1, 1, 0)
                                ELSE NewRow("bob", 0, 1, 0)]
    /\ now = 0
    /\ task = [t \in Tasks |-> IdleTask]
    /\ loop = 0
    /\ hist = << >>
    /\ meg = << >>
    /\ hook = [h \in Hooks |-> IdleHook]
    /\ pull = [p \in Pulls |-> IdlePull]
    /\ strm = IdleStream
    /\ call = IdleCall
    /\ reg = [c \in Regs |-> IdleReg]
    /\ route = Serving(Providers)

\* Registration: requests to create a monitor, calls of register_monitor
\* with every kind of username, and the deliveries of the webhook.
NextReg ==
    \/ \E c \in Regs, username \in {"alice", "bob"} :
          \E monitor_id \in MonitorIds \cup {""} :
             CreateMonitor(c, username, monitor_id)
    \/ \E c \in Regs, username \in {"alice", "bob"} :
          \E status \in {404, 500} : CreateMonitorFails(c, username, status)
    \/ \E r \in Registrations : Register(r[1], r[2])
    \/ \E body \in WellFormedBodies : WebhookDelivered(body, "none")

SpecReg == InitReg /\ [][NextReg]_vars

-----------------------------------------------------------------------------
(* Streamed completions of the provider adapters:                          *)
(* LLMProvider._stream_completion, src/providers/llm_provider.py:82-127    *)
(* (the same code as src/llm-wrapper.py:109-154), and                      *)
(* AnthropicProvider._stream_completion,                                   *)
(* src/providers/anthropic_provider.py:164-270                             *)

MaxLines == 3      \* lines of an upstream response body

\* The adapters by name: an LLMProvider, the LLMProvider whose name selects
\* the delta-collapsing variant of normalize_response, the AnthropicProvider.
Adapters == {"OpenAI", "Perplexity Sonar", "Anthropic"}
OpenAICompatible == {"OpenAI", "Perplexity Sonar"}

\* JSON texts whose value is not an object.
NonObjects == {"number", "string", "array"}

\* A line of the upstream body: what it starts with and the text after it.
\* For an LLMProvider the text is [DONE], an object with choices[0].delta
\* ("delta"), an object with choices but no delta ("nodelta"), an object
\* without choices ("nochoices"), a JSON value that is not an object, or
\* text that is not JSON ("invalid").
OpenAILines ==
    [prefix : {"data: "},
     data : {"[DONE]", "delta", "nodelta", "nochoices", "invalid"}
            \cup NonObjects]
    \cup { [prefix |-> "data:", data |-> "[DONE]"],
           [prefix |-> "", data |-> "garbage"] }

\* For the AnthropicProvider the text of a data line is an event object named
\* by its type (content_block_delta: "text_delta" or "other_delta";
\* message_delta: "stop_reason" when it carries one), a JSON value that is
\* not an object, or text that is not JSON.
AnthropicLines ==
    [prefix : {"data: "},
     data : {"message_start", "text_delta", "other_delta", "stop_reason",
             "message_delta", "message_stop", "ping", "invalid"}
            \cup NonObjects]
    \cup { [prefix |-> "event:", data |-> "message_stop"],
           [prefix |-> "", data |-> ""],
           [prefix |-> "", data |-> "garbage"] }

LinesOf(adapter) ==
    IF adapter = "Anthropic" THEN AnthropicLines ELSE OpenAILines

RECURSIVE SeqsUpTo(_, _)
\* The sequences over S of length at most n.
SeqsUpTo(S, n) ==
    IF n = 0 THEN {<< >>}
    ELSE LET shorter == SeqsUpTo(S, n - 1)
         IN shorter \cup {Append(q, x) : q \in {r \in shorter : Len(r) = n - 1},
                                          x \in S}

\* Emitted frames: what the frame is, whether it has the form
\* "data: <text>\n\n", and its content.
DoneFrame == [kind |-> "done", sse |-> TRUE, body |-> "[DONE]"]
ChunkFrame(body) == [kind |-> "chunk", sse |-> TRUE, body |-> body]
\* json.dumps({"error": str(e)}), llm_provider.py:97
BareError == [kind |-> "error", sse |-> FALSE, body |-> "error"]
\* the error_chunk of anthropic_provider.py:255-266
ErrorChunk == [kind |-> "error", sse |-> TRUE, body |-> "Error"]

\* json.loads raises json.JSONDecodeError on the text.
NotJSON(data) == data \in {"invalid", "[DONE]", "garbage", ""}

\* normalize_response (llm_provider.py:115-127): the exception it raises, or
\* the body of the normalized response, "None" when it returns None.  A
\* value that is not a dict fails in `"choices" not in response`, in the item
\* assignment or in .get, with a TypeError or AttributeError that nothing
\* catches ("TypeError" stands for both).
normalize_response(name, response) ==
    IF response \in NonObjects THEN [exc |-> "TypeError", body |-> ""]
    ELSE IF response = "nochoices" THEN [exc |-> "", body |-> "synthesized"]
    ELSE IF name = "Perplexity Sonar"
    THEN IF response = "delta" THEN [exc |-> "", body |-> "collapsed"]
         ELSE [exc |-> "", body |-> "None"]
    ELSE [exc |-> "", body |-> response]

\* process_streaming_chunk (llm_provider.py:99-113): the exception that
\* leaves it, or the frames it returns (none for None).
process_streaming_chunk(name, chunk) ==
    IF chunk.prefix # "data: " THEN [exc |-> "", frames |-> << >>]
    ELSE IF chunk.data = "[DONE]" THEN [exc |-> "", frames |-> <<DoneFrame>>]
    ELSE IF NotJSON(chunk.data) THEN [exc |-> "", frames |-> << >>]
    ELSE LET normalized == normalize_response(name, chunk.data)
         IN IF normalized.exc # ""
            THEN [exc |-> normalized.exc, frames |-> << >>]
            ELSE IF normalized.body = "None"
            THEN [exc |-> "", frames |-> << >>]
            ELSE [exc |-> "", frames |-> <<ChunkFrame(normalized.body)>>]

\* The body of the loop of AnthropicProvider._stream_completion
\* (anthropic_provider.py:181-251) for one line.  data.get of a value that
\* is not a dict raises AttributeError, which no except clause takes.
anthropic_line(line) ==
    IF line.prefix = "" /\ line.data = "" THEN [exc |-> "", frames |-> << >>]
    ELSE IF line.prefix = "event:" THEN [exc |-> "", frames |-> << >>]
    ELSE IF line.prefix \notin {"data:", "data: "}
    THEN [exc |-> "", frames |-> << >>]
    ELSE IF NotJSON(line.data) THEN [exc |-> "", frames |-> << >>]
    ELSE IF line.data \in NonObjects
    THEN [exc |-> "AttributeError", frames |-> << >>]
    ELSE IF line.data = "message_start"
    THEN [exc |-> "", frames |-> <<ChunkFrame("opening")>>]
    ELSE IF line.data = "text_delta"
    THEN [exc |-> "", frames |-> <<ChunkFrame("text")>>]
    ELSE IF line.data = "stop_reason"
    THEN [exc |-> "", frames |-> <<ChunkFrame("finish")>>]
    ELSE IF line.data = "message_stop"
    THEN [exc |-> "", frames |-> <<DoneFrame>>]
    ELSE [exc |-> "", frames |-> << >>]

\* What the adapter does with one line of the upstream body.
ProcessLine(adapter, line) ==
    IF adapter = "Anthropic" THEN anthropic_line(line)
    ELSE process_streaming_chunk(adapter, line)

\* The frames of the except httpx.HTTPError clause.
ErrorOutput(adapter) ==
    IF adapter = "Anthropic" THEN <<ErrorChunk, DoneFrame>> ELSE <<BareError>>

\* The adapter is called with stream=True and sends its POST; `up` is the
\* body the upstream is going to send.
\* Whether the generator closes its httpx.AsyncClient when it is left:
\* the AnthropicProvider does, in a finally clause; the LLMProvider has none.
closes_client(adapter) == adapter = "Anthropic"

\* The upstream connection of the request once the generator is left: aclose
\* closes the client's connections; without it a connection that is open
\* stays in the pool of the client.
Left(adapter, conn) == IF closes_client(adapter) THEN "closed" ELSE conn

\* self.client = httpx.AsyncClient() and the POST is sent on a connection
\* of the client.
StreamOpens(adapter, up) ==
    /\ strm.pc = "idle"
    /\ strm' = [IdleStream EXCEPT !.pc = "post", !.adapter = adapter,
                                  !.up = up, !.conn = "open"]
    /\ UNCHANGED <<tokens, now, task, loop, hist, meg, hook, pull, call, reg, route>>

\* The response is there: for an LLMProvider client.post has read the whole
\* body; for the AnthropicProvider client.stream has the headers and
\* raise_for_status passed.
PostReturns ==
    /\ strm.pc = "post"
    /\ strm' = [strm EXCEPT !.pc = "lines"]
    /\ UNCHANGED <<tokens, now, task, loop, hist, meg, hook, pull, call, reg, route>>

\* The next line of the body goes through the loop of the generator.
LineRead ==
    /\ strm.pc = "lines"
    /\ strm.pos < Len(strm.up)
    /\ LET r == ProcessLine(strm.adapter, strm.up[strm.pos + 1])
       IN strm' = [strm EXCEPT !.pos = strm.pos + 1,
                               !.out = strm.out \o r.frames,
                               !.pc = IF r.exc = "" THEN "lines" ELSE "crashed",
                               !.conn = IF r.exc = "" THEN strm.conn
                                        ELSE Left(strm.adapter, strm.conn)]
    /\ UNCHANGED <<tokens, now, task, loop, hist, meg, hook, pull, call, reg, route>>

\* httpx.HTTPError: a transport failure or timeout of the POST (for the
\* AnthropicProvider also an error status, by raise_for_status), or, where
\* the body is read while it is streamed (AnthropicProvider), a failure
\* between two lines.
UpstreamFails ==
    /\ \/ strm.pc = "post"
       \/ strm.pc = "lines" /\ strm.adapter = "Anthropic"
    /\ strm' = [strm EXCEPT !.pc = "failed",
                            !.out = strm.out \o ErrorOutput(strm.adapter),
                            !.conn = IF strm.pc = "post" THEN "closed"
                                     ELSE Left(strm.adapter, strm.conn)]
    /\ UNCHANGED <<tokens, now, task, loop, hist, meg, hook, pull, call, reg, route>>

\* The body is exhausted and the generator returns.
StreamEnds ==
    /\ strm.pc = "lines"
    /\ strm.pos = Len(strm.up)
    /\ strm' = [strm EXCEPT !.pc = "ended",
                            !.conn = Left(strm.adapter, strm.conn)]
    /\ UNCHANGED <<tokens, now, task, loop, hist, meg, hook, pull, call, reg, route>>

\* The caller disconnects and the generator is cancelled where it stands.
\* A POST that is awaited is cancelled with its connection; after it, the
\* generator is closed at a yield and only a finally clause still runs.
CallerDisconnects ==
    /\ strm.pc \in {"post", "lines"}
    /\ strm' = [strm EXCEPT !.pc = "cancelled",
                            !.conn = IF strm.pc = "post" THEN "closed"
                                     ELSE Left(strm.adapter, strm.conn)]
    /\ UNCHANGED <<tokens, now, task, loop, hist, meg, hook, pull, call, reg, route>>

NextStream ==
    \/ \E adapter \in Adapters :
          \E up \in SeqsUpTo(LinesOf(adapter), MaxLines) :
             StreamOpens(adapter, up)
    \/ PostReturns
    \/ LineRead
    \/ UpstreamFails
    \/ StreamEnds
    \/ CallerDisconnects

SpecStream == InitMon /\ [][NextStream]_vars

\* ------------------------------------------------------------------------
\* Non-streaming completions of the provider adapters
\* ------------------------------------------------------------------------

MaxMsgs   == 3     \* messages of an inbound request
MaxBlocks == 3     \* content blocks of an upstream answer

\* A text is the sequence of its characters, so that concatenation is \o.
Texts == { <<"a">>, <<"b">> }

\* The empty text: what .get("text", "") yields for a block without text,
\* and the system content of a request without a system field (the field is
\* left out when the content is None or empty).
NoText == << >>

Roles == {"system", "user", "assistant"}

InboundMessages == [role : Roles, content : Texts]

\* The content blocks an upstream answer is made of.
Blocks ==
    [type : {"text"}, text : Texts \cup {NoText}]
        \cup [type : {"tool_use"}, text : {NoText}]

Statuses == {200, 404, 500}

IsSuccess(status) == status \in 200..299

\* What the upstream answers to a request: a status and a body that is a
\* JSON object or not JSON at all; the object of a successful answer of the
\* Messages API carries content blocks.
Responses(adapter) ==
    [status : Statuses, json : BOOLEAN, content : {<< >>}]
        \cup (IF adapter = "Anthropic"
              THEN [status : {200}, json : {TRUE},
                    content : SeqsUpTo(Blocks, MaxBlocks)]
              ELSE {})

\* The loop over the inbound messages: a system message sets system_content
\* and is left out, any other message is appended with its role and content.
RECURSIVE ConvertLoop(_, _, _, _)
ConvertLoop(messages, i, system_content, filtered_messages) ==
    IF i > Len(messages)
    THEN [system |-> system_content, messages |-> filtered_messages]
    ELSE IF messages[i].role = "system"
         THEN ConvertLoop(messages, i + 1, messages[i].content,
                          filtered_messages)
         ELSE ConvertLoop(messages, i + 1, system_content,
                          Append(filtered_messages,
                                 [role |-> messages[i].role,
                                  content |-> messages[i].content]))

convert_openai_to_anthropic(messages) ==
    ConvertLoop(messages, 1, NoText, << >>)

\* The text of the first text block alone.
first_text_block(content) ==
    LET texts == SelectSeq(content, LAMBDA block : block.type = "text")
    IN  IF texts = << >> THEN NoText ELSE texts[1].text

\* choices[0].message.content of the translated answer.
RECURSIVE convert_anthropic_to_openai(_)
convert_anthropic_to_openai(content) ==
    IF content = << >> THEN NoText
    ELSE (IF Head(content).type = "text" THEN Head(content).text ELSE NoText)
             \o convert_anthropic_to_openai(Tail(content))

\* Only the AnthropicProvider calls raise_for_status() on the answer.
raises_for_status(adapter) == adapter = "Anthropic"

\* _standard_completion once the POST has returned: what the caller of the
\* endpoint gets.  A returned dict is served with status 200.
standard_completion(adapter, response) ==
    IF raises_for_status(adapter) /\ ~IsSuccess(response.status)
    THEN [http |-> response.status, outcome |-> "provider_error",
          content |-> NoText]
    ELSE IF ~response.json
    THEN [http |-> 500, outcome |-> "parse_error", content |-> NoText]
    ELSE [http |-> 200, outcome |-> "completion",
          content |-> IF adapter = "Anthropic"
                      THEN convert_anthropic_to_openai(response.content)
                      ELSE NoText]

\* chat_completion(payload, stream=False) up to the POST.
CompletionStarts ==
    /\ call.pc = "idle"
    /\ \E adapter \in Adapters :
          \E messages \in SeqsUpTo(InboundMessages, MaxMsgs) :
             call' = [IdleCall EXCEPT
                         !.pc = "post", !.adapter = adapter,
                         !.messages = messages,
                         !.request =
                             IF adapter = "Anthropic"
                             THEN convert_openai_to_anthropic(messages)
                             ELSE [system |-> NoText,
                                   messages |-> messages]]
    /\ UNCHANGED <<tokens, now, task, loop, hist, meg, hook, pull, strm, reg, route>>

\* The upstream answers the POST.
UpstreamAnswers ==
    /\ call.pc = "post"
    /\ \E response \in Responses(call.adapter) :
          LET r == standard_completion(call.adapter, response)
          IN  call' = [call EXCEPT !.pc = "done", !.response = response,
                                   !.http = r.http, !.outcome = r.outcome,
                                   !.content = r.content]
    /\ UNCHANGED <<tokens, now, task, loop, hist, meg, hook, pull, strm, reg, route>>

\* httpx.post raises a transport error or a timeout: neither except clause
\* catches it, and the framework answers 500.
TransportFails ==
    /\ call.pc = "post"
    /\ call' = [call EXCEPT !.pc = "done", !.http = 500,
                            !.outcome = "unhandled"]
    /\ UNCHANGED <<tokens, now, task, loop, hist, meg, hook, pull, strm, reg, route>>

NextCall ==
    \/ CompletionStarts
    \/ UpstreamAnswers
    \/ TransportFails

SpecCall == InitMon /\ [][NextCall]_vars

\* ------------------------------------------------------------------------
\* The provider table
\* ------------------------------------------------------------------------

MaxProviders == 2  \* entries of the provider table
MaxLookups   == 3  \* lookups of a behaviour

\* The model names a provider can declare, and the ones a request can ask for.
Models == {"m", "k"}
RequestedModels == Models \cup {"zz"}

\* The keys of the configuration, in the order they are loaded.
ProviderNames == <<"P1", "P2", "P3">>

\* load_providers: one entry per key of the configuration, in its order,
\* each with the supported_models the configuration declares for it.
Tables ==
    UNION { { [i \in 1..n |-> [name |-> ProviderNames[i],
                               supported_models |-> f[i],
                               api_key |-> "sk"]] :
                f \in [1..n -> SUBSET Models] } : n \in 0..MaxProviders }

InitRoute ==
    /\ InitStores
    /\ \E table \in Tables : route = Serving(table)

\* A request asks get_provider for the provider of a model; NoProvider is
\* the HTTPException(400) of a model no provider supports.
Lookup(model) ==
    /\ route.pc = "serving"
    /\ Len(route.found) < MaxLookups
    /\ route' = [route EXCEPT
                    !.found = Append(@, [model |-> model,
                                         provider |-> get_provider(model)])]
    /\ UNCHANGED <<tokens, now, task, loop, hist, meg, hook, pull, strm,
                   call, reg>>

NextRoute == \E model \in RequestedModels : Lookup(model)

SpecRoute == InitRoute /\ [][NextRoute]_vars

\* The configurations: like the tables, with the secret each entry's
\* api_key_env resolves to.
Configs ==
    UNION { { [i \in 1..n |-> [name |-> ProviderNames[i],
                               supported_models |-> f[i],
                               secret |-> g[i]]] :
                f \in [1..n -> SUBSET Models], g \in [1..n -> Secrets] } :
            n \in 0..MaxProviders }

\* The process before startup_event: the table is empty.
InitLoad ==
    /\ InitStores
    /\ \E config \in Configs :
          route = [pc |-> "loading", config |-> config,
                   providers |-> << >>, found |-> << >>]

\* One round of the loop of load_providers: the provider of the next entry
\* is constructed and stored.  A ValueError of the constructor leaves
\* load_providers and startup_event: the application startup fails and the
\* server exits without serving a request.
ProviderConstructed ==
    /\ route.pc = "loading"
    /\ Len(route.providers) < Len(route.config)
    /\ LET r == LLMProvider(route.config[Len(route.providers) + 1])
       IN  route' = IF r.ok
                    THEN [route EXCEPT !.providers = Append(@, r.provider)]
                    ELSE [route EXCEPT !.pc = "failed"]
    /\ UNCHANGED <<tokens, now, task, loop, hist, meg, hook, pull, strm,
                   call, reg>>

\* load_providers returns and the server starts to serve.
StartupCompletes ==
    /\ route.pc = "loading"
    /\ Len(route.providers) = Len(route.config)
    /\ route' = [route EXCEPT !.pc = "serving"]
    /\ UNCHANGED <<tokens, now, task, loop, hist, meg, hook, pull, strm,
                   call, reg>>

NextLoad ==
    \/ ProviderConstructed
    \/ StartupCompletes
    \/ \E model \in RequestedModels : Lookup(model)

SpecLoad == InitLoad /\ [][NextLoad]_vars

\* ------------------------------------------------------------------------
\* Classification of a chat-completions request: chat_endpoint,
\* src/llm-wrapper.py:267-287, and contains_update_keywords, 238-248
\* ------------------------------------------------------------------------

\* update_keywords, each as the sequence of its characters.
UpdateKeywords ==
    { <<"u","p","d","a","t","e">>, <<"u","p","d","a","t","e","s">>,
      <<"n","e","w","s">>, <<"l","a","t","e","s","t">>,
      <<"r","e","c","e","n","t">>, <<"n","e","w">>,
      <<"c","h","a","n","g","e","s">>, <<"m","o","n","i","t","o","r">> }

\* str.lower() of a character.
LowerChar(c) ==
    IF c = "N" THEN "n" ELSE IF c = "E" THEN "e" ELSE IF c = "W" THEN "w"
    ELSE IF c = "S" THEN "s" ELSE c

\* str.lower() of a text.
LowerText(text) == [i \in 1..Len(text) |-> LowerChar(text[i])]

\* keyword in text
IsSubstring(keyword, text) ==
    \E off \in 0..(Len(text) - Len(keyword)) :
        \A k \in 1..Len(keyword) : text[off + k] = keyword[k]

\* The contents of a message: str says whether the content is a string (a
\* message without content counts as the empty string); a content that is
\* a list of parts is not a string.
MessageContents ==
    { [str |-> TRUE,  text |-> <<"n","e","w">>],
      [str |-> TRUE,  text |-> <<"N","e","W","S">>],
      [str |-> TRUE,  text |-> <<"a","n","e","w","t">>],
      [str |-> TRUE,  text |-> <<"n","e","x","w">>],
      [str |-> TRUE,  text |-> <<"h","i">>],
      [str |-> TRUE,  text |-> << >>],
      [str |-> FALSE, text |-> <<"n","e","w">>] }

\* The model names of a request.
ChatModels == {"speed", "Speed", "SPEED", "m", "zz"}

\* The stream field of the payload as JSON: absent, or one of these values.
StreamValues == {"absent", "true", "false", "1", "0", "\"true\"", "null"}

\* A keyword test that compares the content as it is written.
contains_keywords_exact(messages) ==
    \E i \in 1..Len(messages) :
        /\ messages[i].str
        /\ \E keyword \in UpdateKeywords :
              IsSubstring(keyword, messages[i].text)

\* contains_update_keywords: some message has a string content whose
\* lower-cased text contains a keyword.
contains_update_keywords(messages) ==
    \E i \in 1..Len(messages) :
        /\ messages[i].str
        /\ \E keyword \in UpdateKeywords :
              IsSubstring(keyword, LowerText(messages[i].text))

\* payload.get("stream") == True: None for an absent field; in Python the
\* number 1 equals True.
StreamRequested(stream) == stream \in {"true", "1"}

\* What serves a monitor pull.
MonitorPull == "stream_monitor_events"

\* chat_endpoint from the return of is_token_valid with True to the choice
\* of the response: the monitor stream, the HTTPException(400) of
\* get_provider, or the provider's streamed or plain completion.
ChatRouted ==
    /\ route.pc = "serving"
    /\ route.found = << >>
    /\ \E model \in ChatModels, stream \in StreamValues :
          \E messages \in SeqsUpTo(MessageContents, 2) :
             LET is_pull == Lower(model) = "speed"
                                /\ contains_update_keywords(messages)
                 provider == IF is_pull THEN MonitorPull
                             ELSE get_provider(model)
                 path == IF is_pull THEN "pull"
                         ELSE IF provider = NoProvider THEN "refused"
                         ELSE IF StreamRequested(stream) THEN "stream"
                         ELSE "json"
             IN  route' = [route EXCEPT
                              !.found = <<[model |-> model,
                                           messages |-> messages,
                                           stream |-> stream,
                                           provider |-> provider,
                                           path |-> path]>>]
    /\ UNCHANGED <<tokens, now, task, loop, hist, meg, hook, pull, strm,
                   call, reg>>

NextClassify == ChatRouted

\* The table holds a provider for "speed" too, so that a request that is
\* not classified as a pull can be served by it.
InitClassify ==
    /\ InitStores
    /\ route = Serving(<< [name |-> "P1", supported_models |-> {"m", "speed"},
                           api_key |-> "sk"] >>)

SpecClassify == InitClassify /\ [][NextClassify]_vars

\* ------------------------------------------------------------------------
\* The first-generation router: src/router.py
\* ------------------------------------------------------------------------

\* PROVIDERS of router.py with what os.getenv(api_key_env) gives at the
\* time of a request.
RouterConfigs ==
    { << [name |-> "XAI", supported_models |-> {"grok-3-latest"},
          secret |-> secret] >> : secret \in Secrets }

RouterModels == {"grok-3-latest", "zz"}

\* Router.get_provider: the status it raises, 0 when it returns a provider.
\* The key of the first configuration that lists the model is read from the
\* environment on every request.
RECURSIVE router_get_provider(_, _, _)
router_get_provider(config, i, model) ==
    IF i > Len(config) THEN 400
    ELSE IF model \in config[i].supported_models
         THEN (IF config[i].secret = "" THEN 500 ELSE 0)
    ELSE router_get_provider(config, i + 1, model)

\* An endpoint that wants a bearer token before it looks at the model.
RouterStatusWithToken(authorization, raised) ==
    IF ExtractToken(authorization) = "" THEN 401
    ELSE IF raised # 0 THEN raised ELSE 200

\* The status of router.py's chat_endpoint: the authorization parameter is
\* never read, and the response is a StreamingResponse whatever the stream
\* field says.
RouterStatus(authorization, raised) ==
    IF raised # 0 THEN raised ELSE 200

\* POST /v1/chat/completions of router.py.
RouterChatEndpoint ==
    /\ route.pc = "serving"
    /\ route.found = << >>
    /\ \E authorization \in Headers, model \in RouterModels :
          \E stream \in StreamValues :
             route' = [route EXCEPT
                          !.found =
                             <<[authorization |-> authorization,
                                model |-> model, stream |-> stream,
                                status |-> RouterStatus(authorization,
                                    router_get_provider(route.config, 1,
                                                        model))]>>]
    /\ UNCHANGED <<tokens, now, task, loop, hist, meg, hook, pull, strm,
                   call, reg>>

NextRouter == RouterChatEndpoint

InitRouter ==
    /\ InitStores
    /\ \E config \in RouterConfigs :
          route = [pc |-> "serving", config |-> config,
                   providers |-> << >>, found |-> << >>]

SpecRouter == InitRouter /\ [][NextRouter]_vars

-----------------------------------------------------------------------------
(* Properties of the credential store and the auth gate *)

Days == 0..Today(MaxNow)

\* The validations of token tk on day d that were not Rejected, and those
\* among them that were Accepted.
Calls(tk, d) ==
    {i \in 1..Len(hist) : /\ hist[i].token = tk /\ hist[i].day = d
                          /\ hist[i].outcome # "Rejected"}
AcceptedCalls(tk, d) == {i \in Calls(tk, d) : hist[i].outcome = "Accepted"}

\* Task t returns from is_valid_token in this step.
Returns(t) ==
    /\ task[t].pc \in {"tv_select", "tv_expiry", "tv_rate"}
    /\ task'[t].pc = "auth"

\* The stored row of t's token can be parsed and is not expired now.
Unexpired(tk) ==
    /\ tk \in DOMAIN tokens
    /\ ~ParseFails(tokens[tk].expiry)
    /\ tokens[tk].expiry > now

\* C1: when N requests validate the same unexpired token on one day and the
\* token's rate_limit is N, all N are Accepted and, while that day is the
\* stored last_request_date, the stored request_count is N: no update is lost,
\* however the requests overlap.
C1_NoLostUpdate ==
    \A tk \in DOMAIN tokens, d \in Days :
        Cardinality(Calls(tk, d)) = tokens[tk].rate_limit
            => /\ AcceptedCalls(tk, d) = Calls(tk, d)
               /\ tokens[tk].last_request_date = d
                     => tokens[tk].request_count = tokens[tk].rate_limit

C1_Witness ==
    \E tk \in DOMAIN tokens, d \in Days :
        /\ tokens[tk].rate_limit >= 2
        /\ Cardinality(AcceptedCalls(tk, d)) = tokens[tk].rate_limit
        /\ tokens[tk].request_count = tokens[tk].rate_limit
        /\ \E i \in AcceptedCalls(tk, d) : hist[i].conc

\* C2 as stated: a validation of an unexpired token whose stored
\* request_count equals its rate_limit returns rate_limited and leaves the
\* table unchanged.
C2_AsStated ==
    [][\A t \in Tasks :
          (/\ Returns(t)
           /\ Unexpired(task[t].token)
           /\ tokens[task[t].token].request_count
                 = tokens[task[t].token].rate_limit)
          => /\ task'[t].is_valid = "rate_limited"
             /\ task'[t].username = tokens[task[t].token].username
             /\ tokens' = tokens]_vars

\* C2 amended: a validation of an unexpired token whose stored request_count
\* equals its rate_limit and whose stored last_request_date is today returns
\* rate_limited with the username and leaves the table unchanged.
C2_RateLimitedToday ==
    [][\A t \in Tasks :
          (/\ Returns(t)
           /\ Unexpired(task[t].token)
           /\ tokens[task[t].token].last_request_date = Today(now)
           /\ tokens[task[t].token].request_count
                 = tokens[task[t].token].rate_limit)
          => /\ task'[t].is_valid = "rate_limited"
             /\ task'[t].username = tokens[task[t].token].username
             /\ tokens' = tokens]_vars

C2_Witness ==
    \E t \in Tasks :
        /\ task[t].pc = "auth"
        /\ task[t].is_valid = "rate_limited"
        /\ Unexpired(task[t].token)
        /\ tokens[task[t].token].rate_limit >= 1
        /\ tokens[task[t].token].last_request_date = Today(now)
        /\ tokens[task[t].token].request_count = tokens[task[t].token].rate_limit

\* C3: when is_token_valid compares the expiry of a stored row with the
\* clock and the expiry is at or before it, the call returns False (Rejected)
\* and has written nothing, whatever request_count and rate_limit hold; and
\* a token once Rejected is Rejected by every later validation.
C3_ExpiredRejected ==
    [][\A t \in Tasks :
          /\ (/\ task[t].pc = "tv_expiry"
              /\ task'[t].pc # "tv_expiry"
              /\ ~ParseFails(tokens[task[t].token].expiry)
              /\ tokens[task[t].token].expiry <= now)
             => /\ task'[t].pc = "auth"
                /\ task'[t].is_valid = "False"
                /\ task'[t].writes = 0
                /\ tokens' = tokens
          /\ (/\ Returns(t)
              /\ \E i \in 1..Len(hist) : /\ hist[i].token = task[t].token
                                         /\ hist[i].outcome = "Rejected")
             => task'[t].is_valid = "False"]_vars

C3_Witness ==
    \E i, j, k \in 1..Len(hist) :
        /\ i < j /\ j < k
        /\ hist[i].token = hist[j].token /\ hist[j].token = hist[k].token
        /\ hist[i].outcome = "Accepted"
        /\ hist[j].outcome = "Rejected" /\ hist[k].outcome = "Rejected"
        /\ ~ParseFails(tokens[hist[i].token].expiry)
        /\ tokens[hist[i].token].request_count < tokens[hist[i].token].rate_limit

\* C4: for a token with rate_limit 1, on every calendar day the first
\* validation that is not Rejected is Accepted and every later one that day is
\* RateLimited; a RateLimited request is answered 429 and an Accepted one is
\* never answered 429 or 401.
C4_OnePerDay ==
    \A tk \in DOMAIN tokens :
        tokens[tk].rate_limit = 1 =>
            \A d \in Days : \A i \in Calls(tk, d) :
                /\ hist[i].outcome = "Accepted"
                      <=> ~\E j \in Calls(tk, d) : j < i
                /\ hist[i].outcome = "RateLimited"
                      => task[hist[i].task].status \in {0, 429}
                /\ hist[i].outcome = "Accepted"
                      => task[hist[i].task].status \in {0, 200, 400}
                /\ task[hist[i].task].pc = "done"
                      => task[hist[i].task].status # 0

C4_Witness ==
    /\ Len(hist) = 3
    /\ \A i \in 1..3 : hist[i].token = "T1" /\ task[hist[i].task].pc = "done"
    /\ tokens["T1"].rate_limit = 1
    /\ hist[1].outcome = "Accepted"    /\ hist[1].day = 0
    /\ hist[2].outcome = "RateLimited" /\ hist[2].day = 0
    /\ hist[3].outcome = "Accepted"    /\ hist[3].day = 1
    /\ task[hist[1].task].status = 200 /\ task[hist[1].task].upstream = 1
    /\ task[hist[2].task].status = 429
    /\ task[hist[3].task].status = 200 /\ task[hist[3].task].upstream = 1

\* C5: right after is_token_valid returned True, the stored request_count of
\* the token is at most its rate_limit.
C5_CountWithinLimit ==
    \A t \in Tasks :
        (task[t].pc = "auth" /\ task[t].is_valid = "True")
            => tokens[task[t].token].request_count
                  <= tokens[task[t].token].rate_limit

C5_Witness ==
    \E t \in Tasks :
        /\ task[t].pc = "auth" /\ task[t].is_valid = "True"
        /\ tokens[task[t].token].request_count = tokens[task[t].token].rate_limit
        /\ tokens[task[t].token].last_request_date = 1
        /\ tokens[task[t].token].lifetime_requests
              > tokens[task[t].token].request_count

\* C6: a validation that returns True stores request_count = (the stored
\* count, or 0 when the stored last_request_date is not today) + 1,
\* last_request_date = today and lifetime_requests + 1, and changes no other
\* row; no step decreases lifetime_requests; and a row changes only in such a
\* step, so the day reset is stored by nothing else.
C6_AcceptedWrite ==
    [][/\ \A t \in Tasks :
            (Returns(t) /\ task'[t].is_valid = "True")
            => LET tk == task[t].token
               IN /\ tokens'[tk].request_count =
                        (IF tokens[tk].last_request_date = Today(now)
                         THEN tokens[tk].request_count ELSE 0) + 1
                  /\ tokens'[tk].last_request_date = Today(now)
                  /\ tokens'[tk].lifetime_requests
                        = tokens[tk].lifetime_requests + 1
                  /\ tokens'[tk].username = tokens[tk].username
                  /\ tokens'[tk].expiry = tokens[tk].expiry
                  /\ tokens'[tk].rate_limit = tokens[tk].rate_limit
                  /\ \A other \in DOMAIN tokens \ {tk} :
                        tokens'[other] = tokens[other]
       /\ \A tk \in DOMAIN tokens :
            /\ tokens'[tk].lifetime_requests >= tokens[tk].lifetime_requests
            /\ tokens'[tk] # tokens[tk]
                  => \E t \in Tasks : /\ Returns(t)
                                      /\ task[t].token = tk
                                      /\ task'[t].is_valid = "True"]_vars

C6_Witness ==
    \E tk \in DOMAIN tokens :
        /\ tokens[tk].last_request_date = 1
        /\ tokens[tk].request_count = 1
        /\ tokens[tk].lifetime_requests = 3

\* C7: a request makes an upstream call or starts a monitor pull only after
\* is_token_valid returned True for it; a request whose validation returned
\* False ends with 401 and one whose validation returned rate_limited ends
\* with 429, and neither has called upstream, started a pull or written to
\* the tokens table.
C7_AuthBeforeUpstream ==
    \A t \in Tasks :
        /\ (task[t].upstream > 0 \/ task[t].pull) => task[t].is_valid = "True"
        /\ task[t].status \in {200, 400} => task[t].is_valid = "True"
        /\ (task[t].pc = "done" /\ task[t].is_valid = "False")
              => task[t].status = 401
        /\ (task[t].pc = "done" /\ task[t].is_valid = "rate_limited")
              => task[t].status = 429
        /\ task[t].is_valid \in {"False", "rate_limited"}
              => /\ task[t].writes = 0
                 /\ task[t].upstream = 0
                 /\ ~task[t].pull

C7_Witness ==
    \E t, u, v \in Tasks :
        /\ task[t].pc = "done" /\ task[t].status = 401
        /\ task[u].pc = "done" /\ task[u].status = 429
        /\ task[v].pc = "done" /\ task[v].pull /\ task[v].writes = 1

-----------------------------------------------------------------------------
(* Properties of the monitor bridge *)

\* The pulls that emitted an event frame of a group.
Emitters(event_group_id) ==
    {p \in Pulls : \E i \in 1..Len(pull[p].frames) :
                      /\ pull[p].frames[i].kind = "event"
                      /\ pull[p].frames[i].group = event_group_id}

RowsOf(tbl, event_group_id) ==
    {i \in 1..Len(tbl) : tbl[i].event_group_id = event_group_id}

\* C8: the events of a stored event group are emitted in at most one pull,
\* over every interleaving of webhook deliveries, pulls and disconnects.
C8_ExactlyOnce ==
    \A g \in GroupIds : Cardinality(Emitters(g)) <= 1

\* Delivery h is handled in this step.
Handled(h) == hook[h].pc = "await_json" /\ hook'[h].pc = "done"

\* C9: the table never holds two rows with one event_group_id; a delivery
\* for a registered monitor that meets no storage error is acknowledged with
\* 200 and leaves exactly one row with its event_group_id; and a delivery
\* whose (monitor_id, event_group_id) is already stored is acknowledged with
\* 200 and leaves the table, and so the stored row, as it was.
C9_IdempotentIngest ==
    [][/\ \A g \in GroupIds : Cardinality(RowsOf(meg', g)) <= 1
       /\ \A h \in Hooks :
            (Handled(h) /\ hook[h].body \in WellFormedBodies) =>
               LET b == hook[h].body
               IN /\ (/\ get_username_by_monitor_id(b.monitor_id) # ""
                      /\ hook'[h].reply # "sqlite3.Error")
                     => /\ Cardinality(RowsOf(meg', b.event_group_id)) = 1
                        /\ hook'[h].reply \in {"stored", "exists"}
                        /\ hook'[h].status = 200
                  /\ (\E i \in 1..Len(meg) :
                         /\ meg[i].event_group_id = b.event_group_id
                         /\ meg[i].monitor_id = b.monitor_id)
                     => /\ meg' = meg
                        /\ hook'[h].reply # "stored"
                        /\ hook'[h].status = 200]_vars

C9_Witness ==
    \E h, k \in Hooks :
        /\ hook[h].pc = "done" /\ hook[k].pc = "done"
        /\ hook[h].reply = "stored" /\ hook[k].reply = "exists"
        /\ hook[h].body = hook[k].body
        /\ hook[k].conc
        /\ \E i \in 1..Len(meg) :
              /\ meg[i].event_group_id = hook[h].body.event_group_id
              /\ meg[i].processed

\* C10: every webhook delivery is answered with HTTP 200, whatever its body
\* and whatever the handler met.
C10_AlwaysAcknowledged ==
    \A h \in Hooks : hook[h].pc = "done" => hook[h].status = 200

C10_Witness ==
    \E h, k \in Hooks :
        /\ hook[h].pc = "done" /\ hook[k].pc = "done"
        /\ hook[h].reply \in {"JSONDecodeError", "AttributeError"}
        /\ hook[k].reply = "sqlite3.Error"
        /\ hook[h].status = 200 /\ hook[k].status = 200

\* The rows of a user that a pull has still to deliver.
Pending(tbl, username) ==
    {i \in 1..Len(tbl) : tbl[i].username = username /\ ~tbl[i].processed}

\* The users that rows of a monitor are stored under.
Owners(tbl, monitor_id) ==
    {tbl[i].username : i \in {j \in 1..Len(tbl) : tbl[j].monitor_id = monitor_id}}

\* Pull p starts in this step and has its API key.
Started(p) ==
    /\ pull[p].pc = "idle" /\ pull'[p].pc # "idle"
    /\ pull'[p].frames = << >> \/ pull'[p].frames[1].kind # "nokey"

\* C11: a delivery for a monitor without any record is acknowledged with 200
\* and leaves the table as it was, so no later pull emits its event group; a
\* delivery that is stored goes under the user the monitor is registered to
\* as a pending row; a pull that starts takes every pending row of its user,
\* emits the events of each fetched group and ends only after the last one.
C11_DroppedUntilRegistered ==
    [][/\ \A h \in Hooks :
            (Handled(h) /\ hook[h].body \in WellFormedBodies) =>
               LET b == hook[h].body
                   owners == Owners(meg, b.monitor_id)
               IN IF owners = {}
                  THEN /\ meg' = meg
                       /\ hook'[h].status = 200
                       /\ hook'[h].reply \in {"unregistered", "sqlite3.Error"}
                  ELSE hook'[h].reply = "stored" =>
                          \E username \in owners :
                             meg' = Append(meg,
                                      [username |-> username,
                                       monitor_id |-> b.monitor_id,
                                       event_group_id |-> b.event_group_id,
                                       received_at |-> now,
                                       processed |-> FALSE])
       /\ \A p \in Pulls :
            /\ Started(p) =>
                  LET pend == Pending(meg, pull'[p].username)
                  IN IF pend = {} THEN pull'[p].pc = "done"
                     ELSE {pull'[p].groups[i].event_group_id :
                              i \in 1..Len(pull'[p].groups)}
                          = {meg[i].event_group_id : i \in pend}
            /\ (pull[p].pc = "get" /\ pull'[p].pc = "yield") =>
                  pull'[p].frames[Len(pull'[p].frames)] =
                     EventFrame(pull[p].groups[pull[p].gi].event_group_id, 0,
                                pull'[p].n)
            /\ (pull[p].pc \in {"get", "yield"} /\ pull'[p].pc = "done") =>
                  pull[p].gi = Len(pull[p].groups)
            /\ \A i \in 1..Len(pull'[p].frames) :
                  pull'[p].frames[i].kind = "event" =>
                     \E j \in 1..Len(meg') :
                        /\ meg'[j].event_group_id = pull'[p].frames[i].group
                        /\ meg'[j].username = pull'[p].username]_vars

C11_Witness ==
    /\ hook[1].pc = "done" /\ hook[1].reply = "unregistered"
    /\ hook[2].pc = "done" /\ hook[2].reply = "stored"
    /\ hook[2].body.monitor_id = "M1" /\ hook[2].body.event_group_id = "G2"
    /\ ~HasGroup(meg, "G1")
    /\ Owners(meg, "M1") = {"alice"}
    /\ \E p \in Pulls :
          /\ pull[p].pc = "done" /\ pull[p].username = "alice"
          /\ p \in Emitters("G2")
    /\ Emitters("G1") = {}

\* The event frames of a group in the frames of a pull.
EventsOf(frames, event_group_id) ==
    SelectSeq(frames, LAMBDA f : f.kind = "event" /\ f.group = event_group_id)

\* Pull p has emitted every event of the group it stands at, and no error.
EmittedInFull(p) ==
    LET q == pull[p]
        g == q.groups[q.gi].event_group_id
        ev == EventsOf(q.frames, g)
    IN /\ ErrorFrame(g) \notin {q.frames[i] : i \in 1..Len(q.frames)}
       /\ q.pc = "get" => ev = << >>
       /\ q.pc = "yield" =>
             /\ Len(ev) = q.n
             /\ \A k \in 1..Len(ev) : ev[k].idx = k - 1
             /\ ev[Len(ev)].finish

\* C12: a row becomes processed only in a step of a pull that fetched its
\* group and has emitted all of the group's event frames; a step in which the
\* fetch fails or the caller disconnects leaves the table as it was; and a
\* pull that starts takes every row of its user that is still pending.
C12_ProcessedAfterEmission ==
    [][/\ \A i \in 1..Len(meg) :
            (~meg[i].processed /\ meg'[i].processed) =>
               \E p \in Pulls :
                  /\ pull[p].pc \in {"get", "yield"}
                  /\ pull[p].groups[pull[p].gi].event_group_id
                        = meg[i].event_group_id
                  /\ EmittedInFull(p)
                  /\ pull'[p].pc \in {"get", "done"}
       /\ \A p \in Pulls :
            /\ (/\ pull[p].pc \in {"get", "yield", "yield_error"}
                /\ pull'[p].pc \in {"yield_error", "closed", "crashed"}
                /\ pull'[p].pc # pull[p].pc)
               => meg' = meg
            /\ Started(p) =>
                  {pull'[p].groups[i].event_group_id :
                      i \in 1..Len(pull'[p].groups)}
                  = {meg[i].event_group_id :
                        i \in Pending(meg, pull'[p].username)}]_vars

C12_Witness ==
    /\ pull[1].pc = "done"
    /\ ErrorFrame("G1") \in {pull[1].frames[i] : i \in 1..Len(pull[1].frames)}
    /\ pull[2].pc = "closed"
    /\ Len(EventsOf(pull[2].frames, "G1")) = 1
    /\ ~pull[2].frames[Len(pull[2].frames)].finish
    /\ \E i \in 1..Len(meg) :
          meg[i].event_group_id = "G1" /\ ~meg[i].processed

\* C13: a step in which the upstream fetch of a group fails appends one
\* error frame for that group and leaves the pull running.
C13_FailureIsolated ==
    [][\A p \in Pulls :
          (pull[p].pc = "get" /\ pull'[p].pc \in {"yield_error", "crashed"}) =>
             /\ pull'[p].pc = "yield_error"
             /\ pull'[p].frames =
                   Append(pull[p].frames,
                          ErrorFrame(pull[p].groups[pull[p].gi].event_group_id))]_vars

\* received_at of the stored row of an event group.
ReceivedAt(tbl, event_group_id) ==
    tbl[CHOOSE i \in 1..Len(tbl) : tbl[i].event_group_id = event_group_id]
       .received_at

\* The frames of a pull that carry content: all but the terminal [DONE].
ContentFrames(frames) == SelectSeq(frames, LAMBDA f : f.kind # "done")

\* All fetches of the pull succeeded and it had its API key.
AllFetched(q) ==
    \A i \in 1..Len(q.frames) : q.frames[i].kind \notin {"error", "nokey"}

StreamOrdered(q, tbl) ==
    LET fr == q.frames
    IN /\ \A i \in 1..Len(fr) :
             fr[i].kind = "done" => (i = Len(fr) /\ q.pc = "done")
       /\ q.pc = "done" => (fr # << >> /\ fr[Len(fr)].kind = "done")
       /\ \A i \in 1..Len(fr) :
             fr[i].kind = "info" => (i = 1 /\ fr = <<NoteFrame("info"),
                                                     NoteFrame("done")>>)
       /\ \A i, j \in 1..Len(fr) :
             (i < j /\ fr[i].kind = "event" /\ fr[j].kind = "event") =>
                /\ ReceivedAt(tbl, fr[i].group) <= ReceivedAt(tbl, fr[j].group)
                /\ fr[i].group = fr[j].group => fr[i].idx < fr[j].idx
       /\ \A i \in 1..Len(fr) :
             fr[i].kind = "event" =>
                /\ fr[i].idx = 0 \/ (i > 1 /\ fr[i-1] = [fr[i] EXCEPT
                                        !.idx = fr[i].idx - 1,
                                        !.finish = FALSE])
                /\ (i < Len(fr) /\ ~fr[i].finish) =>
                      (/\ fr[i+1].kind = "event"
                       /\ fr[i+1].group = fr[i].group)

-----------------------------------------------------------------------------
(* Properties of the streamed completions *)

Frames(out) == {out[i] : i \in 1..Len(out)}

\* C15: when the stream of an OpenAI-compatible adapter ends by a transport
\* failure or timeout, its last two frames are an error chunk framed as
\* "data: <json>" and the terminal [DONE].
C15_ErrorThenDone ==
    (strm.adapter \in OpenAICompatible /\ strm.pc = "failed") =>
       /\ Len(strm.out) >= 2
       /\ strm.out[Len(strm.out) - 1].kind = "error"
       /\ strm.out[Len(strm.out) - 1].sse
       /\ strm.out[Len(strm.out)] = DoneFrame

\* C16: when the stream of the Anthropic adapter ends by a transport
\* failure, its last two frames are one error content frame and [DONE], and
\* that [DONE] is the only one of the sequence.
C16_OneDoneAfterError ==
    (strm.adapter = "Anthropic" /\ strm.pc = "failed") =>
       /\ Len(strm.out) >= 2
       /\ strm.out[Len(strm.out) - 1] = ErrorChunk
       /\ strm.out[Len(strm.out)] = DoneFrame
       /\ Cardinality({i \in 1..Len(strm.out) : strm.out[i].kind = "done"}) = 1
       /\ Cardinality({i \in 1..Len(strm.out) : strm.out[i].kind = "error"}) = 1

RECURSIVE Normalized(_, _)
\* The normalized frames of the well-formed `data: ` lines of a body, in the
\* order of the lines; every other line gives nothing.
Normalized(name, lines) ==
    IF lines = << >> THEN << >>
    ELSE LET l == Head(lines)
             f == IF l.prefix # "data: " THEN << >>
                  ELSE IF l.data = "[DONE]" THEN <<DoneFrame>>
                  ELSE IF l.data = "nochoices" THEN <<ChunkFrame("synthesized")>>
                  ELSE IF l.data \in {"delta", "nodelta"}
                  THEN IF name # "Perplexity Sonar" THEN <<ChunkFrame(l.data)>>
                       ELSE IF l.data = "delta" THEN <<ChunkFrame("collapsed")>>
                       ELSE << >>
                  ELSE << >>
         IN f \o Normalized(name, Tail(lines))

\* C17: once the stream of an OpenAI-compatible adapter is over without a
\* transport failure, the emitted frames are the normalized frames of the
\* well-formed data lines of the whole upstream body, in their order.
C17_FramesOfWellFormedLines ==
    (strm.adapter \in OpenAICompatible /\ strm.pc \in {"ended", "crashed"}) =>
       strm.out = Normalized(strm.adapter, strm.up)

\* C18: the step that reads a line leaves the adapter reading lines: no line
\* ends the stream.
C18_NoLineAborts ==
    [][(strm.pc = "lines" /\ strm'.pos = strm.pos + 1) =>
          strm'.pc = "lines"]_vars

\* C19: in the frames of an OpenAI-compatible adapter, [DONE] is framed as
\* "data: [DONE]" and nothing comes after it.
C19_DoneIsLast ==
    strm.adapter \in OpenAICompatible =>
       \A i \in 1..Len(strm.out) :
          strm.out[i].kind = "done" =>
             (strm.out[i] = DoneFrame /\ i = Len(strm.out))

\* C20: once the Anthropic adapter has emitted [DONE] for message_stop, it
\* emits nothing more.
C20_NothingAfterStop ==
    [][(strm.adapter = "Anthropic" /\ DoneFrame \in Frames(strm.out)) =>
          strm'.out = strm.out]_vars

\* ------------------------------------------------------------------------
\* Non-streaming completions
\* ------------------------------------------------------------------------

\* The upstream has answered the completion.
Answered == call.pc = "done" /\ call.response.status # 0

\* C21: whenever the upstream answers a non-streaming completion of an
\* OpenAI-compatible adapter with a non-2xx status, the caller gets a
\* provider error carrying the upstream status, never a successful
\* completion.
C21_UpstreamErrorSurfaced ==
    (Answered /\ call.adapter \in OpenAICompatible
        /\ ~IsSuccess(call.response.status))
    => (call.outcome = "provider_error" /\ call.http = call.response.status)

\* ------------------------------------------------------------------------
\* Provider resolution
\* ------------------------------------------------------------------------

\* The entries of the provider table that support the model.
Supporting(model) ==
    {i \in 1..Len(route.providers) :
        model \in route.providers[i].supported_models}

\* C22: every lookup returns the first entry of the provider table, in the
\* order it was loaded, whose supported models contain the model, and no
\* provider when there is none; two lookups of the same model return the
\* same provider whatever was looked up in between.
C22_FirstRegisteredWins ==
    /\ \A k \in 1..Len(route.found) :
          LET e == route.found[k]
          IN  IF Supporting(e.model) = {}
              THEN e.provider = NoProvider
              ELSE \E i \in Supporting(e.model) :
                      /\ \A j \in Supporting(e.model) : i <= j
                      /\ e.provider = route.providers[i].name
    /\ \A k, l \in 1..Len(route.found) :
          route.found[k].model = route.found[l].model
             => route.found[k].provider = route.found[l].provider

\* Two providers support "k"; it is looked up, a model nobody supports is
\* looked up and refused, and "k" is looked up again with the same answer.
C22_Witness ==
    /\ Len(route.providers) = 2
    /\ Supporting("k") = {1, 2}
    /\ Len(route.found) = 3
    /\ route.found[1] = [model |-> "k", provider |-> "P1"]
    /\ route.found[2] = [model |-> "zz", provider |-> NoProvider]
    /\ route.found[3] = [model |-> "k", provider |-> "P1"]

\* C23: an authenticated chat-completions request that is not a monitor
\* pull and whose model no configured provider supports ends with a 400
\* response, and no upstream call is made for it.
C23_UnknownModelRefused ==
    [][\A t \in Tasks :
          (/\ task[t].pc = "resolve"
           /\ task'[t].pc = "done"
           /\ Supporting(task[t].payload.model) = {})
          => /\ task[t].is_valid = "True"
             /\ ~task[t].pull
             /\ task'[t].status = 400
             /\ task'[t].upstream = 0]_vars

\* A validated request has been refused with 400 and has called no upstream.
C23_Witness ==
    \E t \in Tasks :
        /\ task[t].pc = "done"
        /\ task[t].status = 400
        /\ task[t].is_valid = "True"
        /\ task[t].upstream = 0
        /\ ~task[t].pull

\* ------------------------------------------------------------------------
\* Translation of the Anthropic-style adapter
\* ------------------------------------------------------------------------

\* A completion of the Anthropic-style adapter has been translated.
Translated == call.pc # "idle" /\ call.adapter = "Anthropic"

\* The positions of the system-role messages of the inbound request.
SystemAt == {i \in 1..Len(call.messages) : call.messages[i].role = "system"}

\* The texts of a sequence, one after the other.
RECURSIVE Joined(_)
Joined(texts) ==
    IF texts = << >> THEN << >> ELSE Head(texts) \o Joined(Tail(texts))

\* The text of the text-typed blocks of an answer, in block order.
TextOf(content) ==
    LET textBlocks == SelectSeq(content, LAMBDA block : block.type = "text")
    IN  Joined([i \in 1..Len(textBlocks) |-> textBlocks[i].text])

\* C24: the request translation lifts the first system-role message (if
\* any) into the top-level system field and keeps every other message,
\* further system-role messages included, with its role and content and in
\* its original relative order.
C24_FirstSystemLifted ==
    Translated =>
        IF SystemAt = {}
        THEN /\ call.request.system = NoText
             /\ call.request.messages = call.messages
        ELSE LET first == CHOOSE i \in SystemAt : \A j \in SystemAt : i <= j
             IN  /\ call.request.system = call.messages[first].content
                 /\ call.request.messages =
                        SubSeq(call.messages, 1, first - 1)
                            \o SubSeq(call.messages, first + 1,
                                      Len(call.messages))

\* C25: the request translation keeps the non-system messages in their
\* order, and the translated answer's choices[0].message.content is the
\* concatenation, in block order, of the text of the text-typed content
\* blocks; other blocks contribute nothing.
C25_RoundTrip ==
    Translated =>
        /\ call.request.messages =
               SelectSeq(call.messages, LAMBDA msg : msg.role # "system")
        /\ (call.pc = "done" /\ call.outcome = "completion")
              => call.content = TextOf(call.response.content)

\* A request with a system message between two others was answered with a
\* text block, a tool_use block and another text block.
C25_Witness ==
    /\ Translated
    /\ call.pc = "done"
    /\ call.outcome = "completion"
    /\ call.messages = << [role |-> "user", content |-> <<"a">>],
                          [role |-> "system", content |-> <<"b">>],
                          [role |-> "assistant", content |-> <<"b">>] >>
    /\ call.request.messages = << [role |-> "user", content |-> <<"a">>],
                                  [role |-> "assistant", content |-> <<"b">>] >>
    /\ call.response.content = << [type |-> "text", text |-> <<"a">>],
                                  [type |-> "tool_use", text |-> NoText],
                                  [type |-> "text", text |-> <<"b">>] >>
    /\ call.content = <<"a", "b">>

\* ------------------------------------------------------------------------
\* Registration of monitors
\* ------------------------------------------------------------------------

\* The event_group_id of the row is that of a registration.
IsRegistration(row) ==
    \E monitor_id \in MonitorIds :
        row.event_group_id = RegistrationId(monitor_id)

\* The registration rows of a monitor.
RegistrationsOf(monitor_id) ==
    {i \in 1..Len(meg) :
        meg[i].monitor_id = monitor_id /\ IsRegistration(meg[i])}

\* C26: registering a monitor that already has a row in the store returns
\* success and leaves the store as it is, whichever registration came
\* first.
C26_DuplicateIsNoOp ==
    [][\A c \in Regs :
          (/\ reg[c].pc = "idle"
           /\ reg'[c].pc = "done"
           /\ reg'[c].status = 200
           /\ \E i \in 1..Len(meg) : meg[i].monitor_id = reg'[c].monitor_id)
          => /\ reg'[c].registered
             /\ meg' = meg]_vars

\* Two requests registered the same monitor: both returned success and the
\* store holds the one row of the first.
C26_Witness ==
    /\ reg[1].pc = "done" /\ reg[2].pc = "done"
    /\ reg[1].monitor_id = "M1" /\ reg[2].monitor_id = "M1"
    /\ reg[1].registered /\ reg[2].registered
    /\ Len(meg) = 1
    /\ meg[1].event_group_id = RegistrationId("M1")

C28_OnlyValidUsers ==
    [][\A i \in 1..Len(meg') :
          (/\ IsRegistration(meg'[i])
           /\ ~HasGroup(meg, meg'[i].event_group_id))
          => CurrentlyValid(meg'[i].username)]_vars

GeneratorLeft == strm.pc \in {"ended", "failed", "crashed", "cancelled"}

\* C30: once the generator of a streamed completion has ended, by
\* completion, by an error or because the caller disconnected, no upstream
\* connection of the request is open, whichever adapter served it.
C30_UpstreamClosed == GeneratorLeft => strm.conn # "open"

\* ------------------------------------------------------------------------
\* Secrets of the providers
\* ------------------------------------------------------------------------

\* The entries of the configuration whose secret does not resolve.
Unresolved ==
    {i \in 1..Len(route.config) : route.config[i].secret = ""}

\* C31: every provider of the table has a non-empty api_key; a
\* configuration with an entry whose secret does not resolve never gets to
\* serve, so no request is routed while a secret is missing.
C31_SecretsResolvedAtLoad ==
    /\ \A i \in 1..Len(route.providers) : route.providers[i].api_key # ""
    /\ route.pc = "serving" => Unresolved = {}
    /\ route.found # << >> => (route.pc = "serving" /\ Unresolved = {})

\* The second entry of the configuration had no secret: the startup failed
\* after the first provider was stored, and nothing was routed.
C31_Witness ==
    /\ route.pc = "failed"
    /\ Unresolved = {2}
    /\ Len(route.providers) = 1
    /\ route.found = << >>

\* ------------------------------------------------------------------------
\* Classification and the choice of the completion path
\* ------------------------------------------------------------------------

\* The text holds the keyword at some offset, whatever the case of its
\* letters.
Mentions(text, keyword) ==
    \E off \in 0..(Len(text) - Len(keyword)) :
        \A k \in 1..Len(keyword) : LowerChar(text[off + k]) = keyword[k]

\* C32: a request is served as a monitor pull exactly when its model is the
\* name speed in any case and some message has a string content that holds
\* an update keyword in any case; every other request gets what
\* get_provider answers for its model, and a pull reaches no provider.
C32_PullExactlyOnKeywords ==
    \A n \in 1..Len(route.found) :
        LET e == route.found[n]
            named == e.model \in {"speed", "Speed", "SPEED"}
            asked == \E i \in 1..Len(e.messages) :
                        /\ e.messages[i].str
                        /\ \E keyword \in UpdateKeywords :
                              Mentions(e.messages[i].text, keyword)
        IN  /\ e.path = "pull" <=> (named /\ asked)
            /\ e.path = "pull" => e.provider = MonitorPull
            /\ e.path # "pull" =>
                  /\ e.provider # MonitorPull
                  /\ IF Supporting(e.model) = {}
                     THEN e.provider = NoProvider /\ e.path = "refused"
                     ELSE /\ e.provider \in
                                {route.providers[i].name :
                                    i \in Supporting(e.model)}
                          /\ e.path \in {"stream", "json"}

\* A request for SPEED whose second message asks for NEWS in capitals was
\* served as a monitor pull.
C32_Witness ==
    /\ Len(route.found) = 1
    /\ route.found[1].model = "SPEED"
    /\ route.found[1].messages =
           << [str |-> FALSE, text |-> <<"n","e","w">>],
              [str |-> TRUE,  text |-> <<"N","e","W","S">>] >>
    /\ route.found[1].path = "pull"

\* C33: a request resolved to a provider is streamed exactly when its
\* stream field is the boolean true; with an absent field, false or any
\* other value it gets the plain completion.
C33_StreamedOnlyOnTrue ==
    \A n \in 1..Len(route.found) :
        route.found[n].path \in {"stream", "json"}
           => (route.found[n].path = "stream"
                  <=> route.found[n].stream = "true")

\* ------------------------------------------------------------------------
\* The first-generation router
\* ------------------------------------------------------------------------

\* The configurations of the router that list the model.
Listing(model) ==
    {i \in 1..Len(route.config) : model \in route.config[i].supported_models}

\* C34 as stated: every request for a model a configured provider lists is
\* answered 200.
C34_AsStated ==
    \A n \in 1..Len(route.found) :
        Listing(route.found[n].model) # {} => route.found[n].status = 200

\* C34: a request for a model a configured provider lists, whose API key
\* is set in the environment, is answered 200 whatever the Authorization
\* header carries and whatever the stream field is.
C34_NoCredentialCheck ==
    \A n \in 1..Len(route.found) :
        (/\ Listing(route.found[n].model) # {}
         /\ \A i \in Listing(route.found[n].model) :
               route.config[i].secret # "")
        => route.found[n].status = 200

\* A request with the header `Bearer` and no token, with stream false, was
\* answered 200.
C34_Witness ==
    /\ Len(route.found) = 1
    /\ route.found[1].authorization = [scheme |-> "Bearer", cred |-> ""]
    /\ route.found[1].model = "grok-3-latest"
    /\ route.found[1].stream = "false"
    /\ route.found[1].status = 200

\* ------------------------------------------------------------------------
\* The events of the Anthropic stream
\* ------------------------------------------------------------------------

MaxEvents == 3

\* The text of a text_delta, as a sequence of characters.
DeltaTexts == { << >>, <<"a">>, <<"b">> }

\* The stop_reason of an upstream message: "None" when the field is absent
\* or null.
StopReasons ==
    {"end_turn", "max_tokens", "stop_sequence", "tool_use", "", "None"}

\* The JSON object of a data line of the Anthropic stream: its type, the
\* type and text of its delta, the stop_reason of its delta.
AnthropicEvents ==
    [type : {"message_start", "message_stop", "ping"},
     delta_type : {""}, text : {<< >>}, stop_reason : {"None"}]
    \cup
    [type : {"content_block_delta"},
     delta_type : {"text_delta"}, text : DeltaTexts, stop_reason : {"None"}]
    \cup
    [type : {"content_block_delta"},
     delta_type : {"input_json_delta"}, text : {<<"a">>},
     stop_reason : {"None"}]
    \cup
    [type : {"message_delta"},
     delta_type : {""}, text : {<< >>}, stop_reason : StopReasons]

\* _map_stop_reason (anthropic_provider.py:112-119).
map_stop_reason(stop_reason) ==
    CASE stop_reason = "end_turn" -> "stop"
      [] stop_reason = "max_tokens" -> "length"
      [] stop_reason = "stop_sequence" -> "stop"
      [] OTHER -> "stop"

\* The frame "data: <openai_chunk>\n\n": the role and the content of
\* choices[0].delta, where it has them, and choices[0].finish_reason.
OpenAIChunk(role, has_content, content, finish_reason) ==
    [kind |-> "chunk", role |-> role, has_content |-> has_content,
     content |-> content, finish_reason |-> finish_reason]

\* The frame "data: [DONE]\n\n".
DoneChunk ==
    [kind |-> "done", role |-> "", has_content |-> FALSE,
     content |-> << >>, finish_reason |-> "None"]

\* The same loop body with a frame for every content_block_delta.
anthropic_chunk_any_delta(data) ==
    IF data.type = "message_start"
    THEN <<OpenAIChunk("assistant", TRUE, << >>, "None")>>
    ELSE IF data.type = "content_block_delta"
    THEN <<OpenAIChunk("", TRUE, data.text, "None")>>
    ELSE IF data.type = "message_delta"
    THEN IF data.stop_reason \notin {"", "None"}
         THEN <<OpenAIChunk("", FALSE, << >>,
                            map_stop_reason(data.stop_reason))>>
         ELSE << >>
    ELSE IF data.type = "message_stop" THEN <<DoneChunk>>
    ELSE << >>

\* The frames the loop of _stream_completion yields for the parsed object
\* of one data line (anthropic_provider.py:195-244).
anthropic_chunk(data) ==
    IF data.type = "message_start"
    THEN <<OpenAIChunk("assistant", TRUE, << >>, "None")>>
    ELSE IF data.type = "content_block_delta"
    THEN IF data.delta_type = "text_delta"
         THEN <<OpenAIChunk("", TRUE, data.text, "None")>>
         ELSE << >>
    ELSE IF data.type = "message_delta"
    THEN IF data.stop_reason \notin {"", "None"}
         THEN <<OpenAIChunk("", FALSE, << >>,
                            map_stop_reason(data.stop_reason))>>
         ELSE << >>
    ELSE IF data.type = "message_stop" THEN <<DoneChunk>>
    ELSE << >>

\* The adapter is called with stream=True; `up` is the events the upstream
\* is going to send, one data line each.
EventsOpen ==
    /\ strm.pc = "idle"
    /\ \E up \in SeqsUpTo(AnthropicEvents, MaxEvents) :
          strm' = [IdleStream EXCEPT !.pc = "events",
                                     !.adapter = "Anthropic",
                                     !.up = up, !.conn = "open"]
    /\ UNCHANGED <<tokens, now, task, loop, hist, meg, hook, pull, call, reg, route>>

\* The next data line goes through the loop of the generator.
EventRead ==
    /\ strm.pc = "events"
    /\ strm.pos < Len(strm.up)
    /\ strm' = [strm EXCEPT !.pos = strm.pos + 1,
                            !.out = strm.out
                                    \o anthropic_chunk(strm.up[strm.pos + 1])]
    /\ UNCHANGED <<tokens, now, task, loop, hist, meg, hook, pull, call, reg, route>>

\* The body is exhausted, the generator returns and its finally clause
\* closes the client.
EventsEnd ==
    /\ strm.pc = "events"
    /\ strm.pos = Len(strm.up)
    /\ strm' = [strm EXCEPT !.pc = "ended", !.conn = "closed"]
    /\ UNCHANGED <<tokens, now, task, loop, hist, meg, hook, pull, call, reg, route>>

NextEvents ==
    \/ EventsOpen
    \/ EventRead
    \/ EventsEnd

SpecEvents == InitMon /\ [][NextEvents]_vars

\* The frames the step added to the output.
Emitted == SubSeq(strm'.out, Len(strm.out) + 1, Len(strm'.out))

\* The event the step read.
EventTaken == strm.up[strm'.pos]

RECURSIVE UpstreamText(_, _)
\* The text deltas of the first n events, concatenated.
UpstreamText(up, n) ==
    IF n = 0 THEN << >>
    ELSE UpstreamText(up, n - 1)
         \o (IF up[n].type = "content_block_delta"
                /\ up[n].delta_type = "text_delta"
             THEN up[n].text ELSE << >>)

RECURSIVE EmittedText(_, _)
\* The contents of the first n frames, concatenated.
EmittedText(out, n) ==
    IF n = 0 THEN << >>
    ELSE EmittedText(out, n - 1)
         \o (IF out[n].kind = "chunk" /\ out[n].has_content
             THEN out[n].content ELSE << >>)

\* The frame of a message_start, of a text delta and of a stop reason.
IsOpening(frame) ==
    /\ frame.kind = "chunk"
    /\ frame.role = "assistant" /\ frame.has_content /\ frame.content = << >>
    /\ frame.finish_reason = "None"

Carries(frame, text) ==
    /\ frame.kind = "chunk"
    /\ frame.role = "" /\ frame.has_content /\ frame.content = text
    /\ frame.finish_reason = "None"

Finishes(frame, stop_reason) ==
    /\ frame.kind = "chunk"
    /\ frame.role = "" /\ ~frame.has_content
    /\ frame.finish_reason =
          (IF stop_reason = "max_tokens" THEN "length" ELSE "stop")

\* The frames of the three events that yield a chunk.
YieldsItsChunk(ev, frames) ==
    /\ ev.type = "message_start"
          => Len(frames) = 1 /\ IsOpening(frames[1])
    /\ ev.type = "content_block_delta" /\ ev.delta_type = "text_delta"
          => Len(frames) = 1 /\ Carries(frames[1], ev.text)
    /\ ev.type = "message_delta" /\ ev.stop_reason \notin {"", "None"}
          => Len(frames) = 1 /\ Finishes(frames[1], ev.stop_reason)

YieldsAChunk(ev) ==
    \/ ev.type = "message_start"
    \/ ev.type = "content_block_delta" /\ ev.delta_type = "text_delta"
    \/ ev.type = "message_delta" /\ ev.stop_reason \notin {"", "None"}

\* C35 as stated: message_start, a text delta and a message_delta with a
\* stop reason yield their one frame and every other event yields nothing.
C35_AsStated ==
    [][strm'.pos = strm.pos + 1
          => /\ YieldsItsChunk(EventTaken, Emitted)
             /\ ~YieldsAChunk(EventTaken) => Emitted = << >>]_vars

\* C35: each event of the Anthropic stream yields at most one frame by its
\* type: message_start one opening frame with an empty assistant delta, a
\* content_block_delta with a text delta one frame carrying exactly that
\* text, a message_delta with a stop reason one frame with an empty delta
\* and the mapped finish reason, message_stop the one frame [DONE], every
\* other event nothing; and the text of the frames emitted so far,
\* concatenated, is the text of the text deltas read so far, concatenated.
C35_OneFramePerEvent ==
    /\ [](strm.pc \in {"events", "ended"}
             => EmittedText(strm.out, Len(strm.out))
                   = UpstreamText(strm.up, strm.pos))
    /\ [][strm'.pos = strm.pos + 1
             => /\ YieldsItsChunk(EventTaken, Emitted)
                /\ EventTaken.type = "message_stop"
                      => Emitted = <<DoneChunk>>
                /\ ~YieldsAChunk(EventTaken)
                      /\ EventTaken.type # "message_stop"
                      => Emitted = << >>]_vars

\* A stream of a message_start, a text delta and a message_delta with the
\* stop reason max_tokens has ended with its three frames.
C35_Witness ==
    /\ strm.pc = "ended"
    /\ Len(strm.up) = 3
    /\ strm.up[1].type = "message_start"
    /\ strm.up[2].delta_type = "text_delta" /\ strm.up[2].text = <<"b">>
    /\ strm.up[3].stop_reason = "max_tokens"
    /\ Len(strm.out) = 3
    /\ strm.out[2].content = <<"b">>
    /\ strm.out[3].finish_reason = "length"

\* ------------------------------------------------------------------------
\* The translation of an Anthropic response
\* ------------------------------------------------------------------------

MaxCounts == 2

\* A JSON object as a function from the keys it has.
Get(object, key, default) ==
    IF key \in DOMAIN object THEN object[key] ELSE default

\* The usage object of an upstream response: any of input_tokens and
\* output_tokens, each a count.
Usages ==
    UNION { [keys -> 0..MaxCounts] :
               keys \in SUBSET {"input_tokens", "output_tokens"} }

\* The upstream response: its stop_reason ("None" when absent) and its
\* usage object, when it has one.
AnthropicResponses ==
    [stop_reason : StopReasons, has_usage : {TRUE}, usage : Usages]
    \cup
    [stop_reason : StopReasons, has_usage : {FALSE}, usage : {<< >>}]

\* The same translation with the output tokens as the total.
openai_response_output_total(anthropic_response) ==
    LET usage == IF anthropic_response.has_usage
                 THEN anthropic_response.usage ELSE << >>
    IN [finish_reason |-> map_stop_reason(anthropic_response.stop_reason),
        usage |-> [prompt_tokens |-> Get(usage, "input_tokens", 0),
                   completion_tokens |-> Get(usage, "output_tokens", 0),
                   total_tokens |-> Get(usage, "output_tokens", 0)]]

\* _convert_anthropic_to_openai (anthropic_provider.py:79-110): the
\* finish_reason of choices[0] and the usage object.
openai_response(anthropic_response) ==
    LET usage == IF anthropic_response.has_usage
                 THEN anthropic_response.usage ELSE << >>
    IN [finish_reason |-> map_stop_reason(anthropic_response.stop_reason),
        usage |-> [prompt_tokens |-> Get(usage, "input_tokens", 0),
                   completion_tokens |-> Get(usage, "output_tokens", 0),
                   total_tokens |-> Get(usage, "input_tokens", 0)
                                    + Get(usage, "output_tokens", 0)]]

\* _standard_completion translates the response of the upstream
\* (anthropic_provider.py:152-153).
ResponseConverted ==
    /\ call.pc = "idle"
    /\ \E response \in AnthropicResponses :
          call' = [pc |-> "converted", adapter |-> "Anthropic",
                   response |-> response,
                   openai |-> openai_response(response)]
    /\ UNCHANGED <<tokens, now, task, loop, hist, meg, hook, pull, strm, reg, route>>

NextConvert == ResponseConverted

SpecConvert == InitMon /\ [][NextConvert]_vars

\* C36: the finish reason of a translated response is length exactly when
\* the upstream stop reason is max_tokens and stop otherwise; prompt_tokens
\* and completion_tokens are the upstream input and output token counts, 0
\* when absent, and total_tokens is their sum.
C36_FinishReasonAndUsage ==
    call.pc = "converted" =>
        LET upstream == call.response
            openai == call.openai
            input == IF upstream.has_usage
                        /\ "input_tokens" \in DOMAIN upstream.usage
                     THEN upstream.usage["input_tokens"] ELSE 0
            output == IF upstream.has_usage
                         /\ "output_tokens" \in DOMAIN upstream.usage
                      THEN upstream.usage["output_tokens"] ELSE 0
        IN /\ openai.finish_reason =
                 (IF upstream.stop_reason = "max_tokens" THEN "length"
                                                         ELSE "stop")
           /\ openai.usage.prompt_tokens = input
           /\ openai.usage.completion_tokens = output
           /\ openai.usage.total_tokens = input + output

\* A response stopped by max_tokens with 1 input and 2 output tokens was
\* translated.
C36_Witness ==
    /\ call.pc = "converted"
    /\ call.response.stop_reason = "max_tokens"
    /\ call.response.has_usage
    /\ DOMAIN call.response.usage = {"input_tokens", "output_tokens"}
    /\ call.response.usage["input_tokens"] = 1
    /\ call.response.usage["output_tokens"] = 2
    /\ call.openai.finish_reason = "length"
    /\ call.openai.usage.total_tokens = 3

\* ------------------------------------------------------------------------
\* Concurrent streams on one provider object
\* ------------------------------------------------------------------------

MaxStreams == 2
MaxSteps == 2

\* The requests that stream from the one provider object get_provider
\* returns for their model.
Streams == 1..MaxStreams

\* No httpx.AsyncClient: self.client before the first stream.
NoClient == 0

\* A generator that has not started.
IdleGen == [pc |-> "idle", own |-> NoClient, pos |-> 0, out |-> << >>]

\* The provider object: its adapter class, its attribute self.client, the
\* clients its streams have created (named by the stream that created
\* them) and its generators.
SharedProvider(adapter) ==
    [pc |-> "shared", adapter |-> adapter, client |-> NoClient,
     clients |-> [s \in Streams |-> "none"],
     gen |-> [s \in Streams |-> IdleGen]]

\* `finally: if self.client: await self.client.aclose()` of the
\* AnthropicProvider: the client the attribute names now is closed.  The
\* LLMProvider has no such clause.
Released(provider) ==
    IF closes_client(provider.adapter) /\ provider.client # NoClient
    THEN [provider.clients EXCEPT ![provider.client] = "closed"]
    ELSE provider.clients

\* _stream_completion starts: self.client = httpx.AsyncClient() and the
\* POST goes out on the new client.
SharedOpens(s) ==
    /\ strm.pc = "shared"
    /\ strm.gen[s].pc = "idle"
    /\ strm' = [strm EXCEPT !.client = s,
                            !.clients[s] = "open",
                            !.gen[s].pc = "lines",
                            !.gen[s].own = s]
    /\ UNCHANGED <<tokens, now, task, loop, hist, meg, hook, pull, call, reg, route>>

\* The generator reads a line of its response and yields a frame.  On a
\* client that has been closed only what was buffered can still be read.
SharedReads(s) ==
    /\ strm.pc = "shared"
    /\ strm.gen[s].pc = "lines"
    /\ strm.gen[s].pos < MaxSteps
    /\ strm' = [strm EXCEPT !.gen[s].pos = strm.gen[s].pos + 1,
                            !.gen[s].out = Append(strm.gen[s].out, "chunk")]
    /\ UNCHANGED <<tokens, now, task, loop, hist, meg, hook, pull, call, reg, route>>

\* The body ends with its terminal line and the generator returns.  The
\* body of a closed client does not get that far.
SharedEnds(s) ==
    /\ strm.pc = "shared"
    /\ strm.gen[s].pc = "lines"
    /\ strm.clients[strm.gen[s].own] = "open"
    /\ strm' = [strm EXCEPT !.gen[s].pc = "ended",
                            !.gen[s].out = Append(strm.gen[s].out, "done"),
                            !.clients = Released(strm)]
    /\ UNCHANGED <<tokens, now, task, loop, hist, meg, hook, pull, call, reg, route>>

\* httpx.HTTPError while the body is read: the upstream fails, or the
\* client of the stream has been closed under it.
SharedFails(s) ==
    /\ strm.pc = "shared"
    /\ strm.gen[s].pc = "lines"
    /\ strm' = [strm EXCEPT !.gen[s].pc = "failed",
                            !.gen[s].out =
                                strm.gen[s].out
                                \o (IF strm.adapter = "Anthropic"
                                    THEN <<"error", "done">>
                                    ELSE <<"error">>),
                            !.clients = Released(strm)]
    /\ UNCHANGED <<tokens, now, task, loop, hist, meg, hook, pull, call, reg, route>>

\* The caller of the stream disconnects and the generator is closed.
SharedCancelled(s) ==
    /\ strm.pc = "shared"
    /\ strm.gen[s].pc = "lines"
    /\ strm' = [strm EXCEPT !.gen[s].pc = "cancelled",
                            !.clients = Released(strm)]
    /\ UNCHANGED <<tokens, now, task, loop, hist, meg, hook, pull, call, reg, route>>

NextShared ==
    \/ \E s \in Streams : SharedOpens(s)
    \/ \E s \in Streams : SharedReads(s)
    \/ \E s \in Streams : SharedEnds(s)
    \/ \E s \in Streams : SharedFails(s)
    \/ \E s \in Streams : SharedCancelled(s)

\* The stores as they start, and the provider object of either class with
\* no stream started.
InitShared ==
    /\ tokens = [tk \in StoredTokens |->
                   IF tk = "T1" THEN NewRow("alice", MaxNow + 1, 1, 0)
                                ELSE NewRow("bob", MaxNow + 1, 1, 0)]
    /\ now = 0
    /\ task = [t \in Tasks |-> IdleTask]
    /\ loop = 0
    /\ hist = << >>
    /\ meg = << >>
    /\ hook = [h \in Hooks |-> IdleHook]
    /\ pull = [p \in Pulls |-> IdlePull]
    /\ call = IdleCall
    /\ reg = [c \in Regs |-> IdleReg]
    /\ route = Serving(Providers)
    /\ \E adapter \in {"Anthropic", "OpenAI"} :
          strm = SharedProvider(adapter)

SpecShared == InitShared /\ [][NextShared]_vars

\* The streams that are being read.
StreamsInFlight == {s \in Streams : strm.gen[s].pc = "lines"}

\* C37: while a stream is in flight the client it created stays open,
\* whatever the other streams of the provider object have done.
C37_ClientsStayOpen ==
    \A s \in StreamsInFlight : strm.clients[strm.gen[s].own] = "open"

\* ------------------------------------------------------------------------
\* The owner of a monitor
\* ------------------------------------------------------------------------

\* The usernames on the rows of the monitor.
UsernamesOf(monitor_id) ==
    {meg[i].username : i \in {j \in 1..Len(meg) : meg[j].monitor_id = monitor_id}}

\* C38: in every reachable state of the store all rows of one monitor carry
\* one username, that of the first row of the monitor, whatever
\* registrations (also by other users) and webhook deliveries have run.
C38_OneUserPerMonitor ==
    \A i \in 1..Len(meg) :
        \A j \in 1..Len(meg) :
            (i <= j /\ meg[i].monitor_id = meg[j].monitor_id)
               => meg[j].username = meg[i].username

\* Alice registered M1, bob registered M2, and a delivery for M1 was
\* stored after both: it carries alice.
C38_Witness ==
    /\ Len(meg) = 3
    /\ meg[1].event_group_id = RegistrationId("M1")
    /\ meg[1].username = "alice"
    /\ meg[2].event_group_id = RegistrationId("M2")
    /\ meg[2].username = "bob"
    /\ meg[3].monitor_id = "M1" /\ ~IsRegistration(meg[3])
    /\ UsernamesOf("M1") = {"alice"}

\* ------------------------------------------------------------------------
\* The quota of a request
\* ------------------------------------------------------------------------

MaxRequests == 2

\* The requests of a behaviour, to either endpoint that authenticates.
Requests == 1..MaxRequests
Endpoints == {"chat", "create"}

\* The body of a request to create a monitor: its query and its cadence,
\* "" for a field that is missing or empty.
CreatePayloads == [query : {"", "q"}, cadence : {"", "daily", "yearly"}]

\* What follows the checks of the handler: the provider or the monitor
\* service answers, or it fails.
Upstreams == {"answers", "fails"}

\* A validation that accepts without writing the row.
is_token_valid_no_write(token) ==
    LET row == SelectRow(tokens, token)
    IN IF token = "" \/ row = NoRow
       THEN [is_valid |-> "False", username |-> "none", tokens |-> tokens]
       ELSE IF ParseFails(row.expiry) \/ Expired(row.expiry, now)
       THEN [is_valid |-> "False", username |-> "none", tokens |-> tokens]
       ELSE IF OverLimit(ResetCount(row, Today(now)), row.rate_limit)
       THEN [is_valid |-> "rate_limited", username |-> row.username,
             tokens |-> tokens]
       ELSE [is_valid |-> "True", username |-> row.username,
             tokens |-> tokens]

\* is_token_valid (llm-wrapper.py:197-232), from its entry to its return:
\* what it returns and the table it leaves.
is_token_valid(token) ==
    LET row == SelectRow(tokens, token)
    IN IF token = "" \/ row = NoRow
       THEN [is_valid |-> "False", username |-> "none", tokens |-> tokens]
       ELSE IF ParseFails(row.expiry) \/ Expired(row.expiry, now)
       THEN [is_valid |-> "False", username |-> "none", tokens |-> tokens]
       ELSE IF OverLimit(ResetCount(row, Today(now)), row.rate_limit)
       THEN [is_valid |-> "rate_limited", username |-> row.username,
             tokens |-> tokens]
       ELSE [is_valid |-> "True", username |-> row.username,
             tokens |-> [tokens EXCEPT ![token] =
                            UpdatedRow(row, ResetCount(row, Today(now)),
                                       Today(now))]]

\* chat_endpoint after the authentication (llm-wrapper.py:267-287): the
\* monitor pull, the unknown model, the completion of the provider.
chat_outcome(payload, upstream) ==
    IF Lower(payload.model) = "speed" /\ payload.keywords
    THEN [status |-> 200, outcome |-> "pull"]
    ELSE IF get_provider(payload.model) = NoProvider
    THEN [status |-> 400, outcome |-> "unknown_model"]
    ELSE IF upstream = "fails"
    THEN [status |-> 500, outcome |-> "upstream_failed"]
    ELSE [status |-> 200, outcome |-> "completion"]

\* create_monitor_endpoint after the authentication (llm-wrapper.py:
\* 398-463): the checks of query and cadence, then the monitor service.
create_outcome(payload, upstream) ==
    IF payload.query = ""
    THEN [status |-> 400, outcome |-> "missing_query"]
    ELSE IF payload.cadence = ""
    THEN [status |-> 400, outcome |-> "missing_cadence"]
    ELSE IF payload.cadence \notin {"hourly", "daily", "weekly"}
    THEN [status |-> 400, outcome |-> "invalid_cadence"]
    ELSE IF upstream = "fails"
    THEN [status |-> 500, outcome |-> "service_failed"]
    ELSE [status |-> 200, outcome |-> "created"]

\* A request arrives at an endpoint, which extracts the token and calls
\* is_token_valid (llm-wrapper.py:258-266, 390-397).
Authenticated(t) ==
    /\ t \in Requests
    /\ task[t].pc = "idle"
    /\ \A u \in Requests : u < t => task[u].pc # "idle"
    /\ \E endpoint \in Endpoints, authorization \in Headers :
          LET token == ExtractToken(authorization)
              v == is_token_valid(token)
          IN /\ tokens' = v.tokens
             /\ task' = [task EXCEPT ![t] =
                           [pc |-> IF v.is_valid = "True" THEN "accepted"
                                   ELSE "done",
                            endpoint |-> endpoint, token |-> token,
                            is_valid |-> v.is_valid, day |-> Today(now),
                            status |-> AuthStatus(v.is_valid),
                            outcome |-> ""]]
    /\ UNCHANGED <<now, loop, hist>>
    /\ UNCHANGED monVars

\* The handler goes on after the authentication, to its answer.
RequestAnswered(t) ==
    /\ t \in Requests
    /\ task[t].pc = "accepted"
    /\ \E upstream \in Upstreams :
          \E r \in IF task[t].endpoint = "chat"
                   THEN {chat_outcome(payload, upstream) :
                            payload \in Payloads}
                   ELSE {create_outcome(payload, upstream) :
                            payload \in CreatePayloads} :
             task' = [task EXCEPT ![t].pc = "done",
                                  ![t].status = r.status,
                                  ![t].outcome = r.outcome]
    /\ UNCHANGED <<tokens, now, loop, hist>>
    /\ UNCHANGED monVars

NextQuota ==
    \/ Tick
    \/ \E t \in Requests : Authenticated(t)
    \/ \E t \in Requests : RequestAnswered(t)

SpecQuota == Init /\ [][NextQuota]_vars

\* The requests the validation accepted with the token.
AcceptedWith(tk) ==
    {t \in Requests : /\ task[t].pc \in {"accepted", "done"}
                      /\ task[t].is_valid = "True"
                      /\ task[t].token = tk}

\* C39: every request the validation accepted has counted once in
\* lifetime_requests and once in the request_count of its day, whatever
\* became of it afterwards (pull, unknown model, upstream failure, a
\* creation rejected for its fields), and the steps of a request after its
\* authentication leave the tokens table as it is.
C39_QuotaAtAuthentication ==
    /\ [](\A tk \in StoredTokens :
             /\ tokens[tk].lifetime_requests = Cardinality(AcceptedWith(tk))
             /\ tokens[tk].request_count =
                   Cardinality({t \in AcceptedWith(tk) :
                                  task[t].day = tokens[tk].last_request_date}))
    /\ [][\A t \in Requests :
             task[t].pc = "accepted" /\ task'[t].pc = "done"
                => tokens' = tokens]_vars

\* A creation rejected for its cadence and a chat request for an unknown
\* model, both accepted with T1 on one day: T1 has counted two requests.
C39_Witness ==
    /\ task[1].pc = "done" /\ task[2].pc = "done"
    /\ task[1].token = "T1" /\ task[2].token = "T1"
    /\ task[1].outcome = "invalid_cadence"
    /\ task[2].outcome = "unknown_model"
    /\ task[1].day = task[2].day
    /\ tokens["T1"].lifetime_requests = 2
    /\ tokens["T1"].request_count = 2

\* ------------------------------------------------------------------------
\* The pulls of two users
\* ------------------------------------------------------------------------

\* The monitors of two users, the deliveries for them, and the pulls of
\* both users, which may overlap.
NextIsolate ==
    \/ \E r \in {<<"alice", "M1">>, <<"bob", "M2">>, <<"bob", "M1">>} :
          Register(r[1], r[2])
    \/ \E body \in WellFormedBodies : WebhookDelivered(body, "none")
    \/ \E p \in Pulls, u \in {"alice", "bob"} : PullStarts(p, u, TRUE)
    \/ \E p \in Pulls : PullFetched(p, 1)
    \/ \E p \in Pulls : PullFetchFails(p, "status")
    \/ \E p \in Pulls : PullResumes(p)

SpecIsolate == InitMon /\ [][NextIsolate]_vars

\* The rows of the table that carry the username.
RowsOfUser(tbl, username) ==
    {i \in 1..Len(tbl) : tbl[i].username = username}

\* The event groups of the pending rows of the user.
PendingOfUser(username) ==
    {meg[i].event_group_id :
        i \in {j \in RowsOfUser(meg, username) : ~meg[j].processed}}

\* C40: a pull of user U fetches exactly the pending event groups stored
\* for U, emits frames only for event groups stored for U, and a step of
\* the pull leaves the rows of every other user as they are.
C40_PullsAreIsolated ==
    /\ [](\A p \in Pulls :
             \A n \in 1..Len(pull[p].frames) :
                pull[p].frames[n].kind \in {"event", "error"}
                   => \E i \in RowsOfUser(meg, pull[p].username) :
                         meg[i].event_group_id = pull[p].frames[n].group)
    /\ [][\A p \in Pulls :
             pull'[p] # pull[p]
                => /\ Len(meg') = Len(meg)
                   /\ \A i \in 1..Len(meg) :
                         meg[i].username # pull'[p].username
                            => meg'[i] = meg[i]
                   /\ pull[p].pc = "idle" /\ pull'[p].pc = "get"
                         => {pull'[p].groups[k].event_group_id :
                                k \in 1..Len(pull'[p].groups)}
                               = PendingOfUser(pull'[p].username)]_vars

\* Alice and bob each have a pending event group; alice's pull has emitted
\* hers and marked it processed, and bob's is still pending.
C40_Witness ==
    /\ pull[1].pc = "done" /\ pull[1].username = "alice"
    /\ \E n \in 1..Len(pull[1].frames) :
          pull[1].frames[n].kind = "event"
    /\ \E i \in RowsOfUser(meg, "alice") :
          ~IsRegistration(meg[i]) /\ meg[i].processed
    /\ \E i \in RowsOfUser(meg, "bob") :
          ~IsRegistration(meg[i]) /\ ~meg[i].processed

====
